---- MODULE Spec2Model ----
(***************************************************************************)
(* Model of the analyzer's frame pipeline orchestrator                     *)
(* (src/backend/analyzer/manager.py, AnalyzerWebSocketManager) together    *)
(* with the collaborators it drives: WebcamSession                         *)
(* (src/backend/common/core/session.py) and TrackingManager                *)
(* (src/backend/analyzer/tracker.py).                                      *)
(*                                                                         *)
(* The program runs on one asyncio event loop.  Code between two awaits is *)
(* atomic, so every action below is the code executed from the resumption  *)
(* of one await to the next suspension of the same coroutine.              *)
(***************************************************************************)
EXTENDS Integers, FiniteSets, Sequences, TLC

\* ---------------------------------------------------------------- bounds
NumWS == 2                \* websocket objects that ever call connect()
MaxFrame == 2             \* frames one run accepts
MaxConsecutive == 5       \* cap on ProcessingState.consecutive_errors
MaxTracks == 1            \* track ids the tracker hands out between clears

\* ------------------------------------------------------ program constants
max_consecutive_errors == 5
fps_threshold == 15
initial_fps == 30

WS == 1..NumWS
\* A connect() call constructs at most one WebcamSession and creates at most
\* one _process_frames task (manager.py 162, 166).
SessionIds == 1..NumWS
RunIds == 1..NumWS
None == 0
NoPass == <<0, 0>>         \* _inference_task is None
FpsValues == {10, initial_fps}   \* one measured rate on each side of fps_threshold

VARIABLES
    active_connections,   \* set of attached websockets
    ws_pc,                \* per websocket: position of its route handler
    _streamer_url,        \* TRUE once set_streamer_url() has stored a URL
    _webcam_session,      \* session id or None
    sessions,             \* session id -> "unused" | "open" | "closed"
    _processing_task,     \* run id or None
    tasks,                \* run id -> state of that _process_frames task
    _inference_task,      \* pass id <<run, frame>> or NoPass
    passes,               \* set of inference-pass records (unfinished, or the latest one)
    _tracked_objects,     \* ids of the tracks in the tracker's table
    _next_track_id,
    tm_tracked_objects,   \* a TrackingManager called directly: track id -> TrackedObject
    tm_next_track_id,     \* its _next_track_id
    tm_calls,             \* number of calls made on it
    tm_last,              \* the last call: its arguments, its locals and its result
    tm_assigned,          \* history: ids given to new tracks, ever and since the last clear()
    interp,               \* a TrackedObject.get_interpolated call: arguments and result
    scaling,              \* the adaptive-scale part of a ProcessingState, or NoScaling
    sampling,             \* one run's frame_id, current_fps, subscribers and latest inference pass
    detector,             \* one _Detector, its lock, the executor and the infer() calls made on it
    backends,             \* the depth-backend registry, the estimator and detector singletons, the last call
    camera,               \* one _SharedCamera, its capture devices and the last call on it
    meta,                 \* one _build_metadata_message call: frame size, detections, payload
    depth                 \* one depth estimator: update_id, last_depths and the last estimate_distance_m call

\* The TrackingManager that is exercised call by call.
tm_vars == <<tm_tracked_objects, tm_next_track_id, tm_calls, tm_last, tm_assigned>>

pipeline_vars == <<active_connections, ws_pc, _streamer_url, _webcam_session,
                   sessions, _processing_task, tasks, _inference_task, passes,
                   _tracked_objects, _next_track_id>>

\* Units that are exercised call by call, apart from the TrackingManager.
util_vars == <<interp, scaling, sampling, detector, backends, camera, meta, depth>>
interp_rest == <<pipeline_vars, tm_vars, scaling, sampling, detector, backends, camera, meta, depth>>
scaling_rest == <<pipeline_vars, tm_vars, interp, sampling, detector, backends, camera, meta, depth>>
sampling_rest == <<pipeline_vars, tm_vars, interp, scaling, detector, backends, camera, meta, depth>>
detector_rest == <<pipeline_vars, tm_vars, interp, scaling, sampling, backends, camera, meta, depth>>
backends_rest == <<pipeline_vars, tm_vars, interp, scaling, sampling, detector, camera, meta, depth>>
camera_rest == <<pipeline_vars, tm_vars, interp, scaling, sampling, detector, backends, meta, depth>>
meta_rest == <<pipeline_vars, tm_vars, interp, scaling, sampling, detector, backends, camera, depth>>
depth_rest == <<pipeline_vars, tm_vars, interp, scaling, sampling, detector, backends, camera, meta>>

harness_vars == <<tm_vars, util_vars>>

vars == <<pipeline_vars, harness_vars>>


\* ProcessingState plus the scheduling state of the task that owns it.
\*   status : "unused" | "running" | "done"
\*   pc     : "start" | "recv" | "sleep" | "rc_sleep" | "rc_connect" | "done"
\*   cancel : cancel() has been called and CancelledError is not yet delivered
\*   fails  : history variable, receive failures since the last success
\* current_fps and target_scale are written by _update_fps_and_scaling from
\* wall-clock measurements; a reader of current_fps sees any measured rate.
\* The error counters of a finished task are read by nobody (inference passes
\* read frame_id and current_fps only) and are dropped with the task; the
\* whole object is dropped once no unfinished pass holds it (Release).
ProcessingState ==
    [status |-> "running", pc |-> "start", cancel |-> FALSE,
     frame_id |-> 0, consecutive_errors |-> 0, fails |-> 0]

UnusedTask == [ProcessingState EXCEPT !.status = "unused"]

WsIdle(pc) == [pc |-> pc, arg |-> None]

\* Nothing has been called on the TrackingManager yet.
NoCall ==
    [op |-> "none", detections |-> <<>>, frame_id |-> None,
     assignments |-> <<>>, created |-> {}, output |-> <<>>, is_interpolated |-> <<>>]

NoScaling == [started |-> FALSE, target_scale |-> None, current_fps |-> None,
              fps_counter |-> 0]

NoSamplePass == [pc |-> "none", frame |-> 0, frame_id |-> 0, current_fps |-> 0,
                 detector |-> 0, broadcast |-> 0]

NoSampling == [frame_id |-> 0, current_fps |-> initial_fps, subscribed |-> FALSE,
               pass |-> NoSamplePass, messages |-> <<>>]

\* The tasks that call infer() on the shared detector, one call each.
NumCallers == 2
Callers == 1..NumCallers

NoInfer == [pc |-> "idle", start |-> 0, now |-> 0, exec |-> 0, result |-> None]

\* detector.py 46-48: the state after __init__; clock is the event loop's
\* time in ticks of 50 ms, running the predict() executions in the executor.
NoDetector == [_last_det |-> None, _last_time |-> 0, lock |-> None, waiters |-> <<>>,
               clock |-> 0, predicts |-> 0, running |-> {},
               calls |-> [c \in Callers |-> NoInfer]]

\* What the last call did: whether it resolved a backend, the exception it
\* raised, the names its message contains, the instance it returned.
NoResolve == [op |-> "none", resolved |-> FALSE, error |-> "none", message |-> {},
              instance |-> None]

\* Since the last register_depth_estimator(): get_depth_estimator() calls
\* that returned, factory invocations that returned, instances returned.
NoEpoch == [gets |-> 0, built |-> 0, returned |-> {}, backends_registered |-> 0]

\* depth.py 28-29, 61, 259-260 and detector.py 83: the module state after
\* import, with the configured backend names (config.py 70).
NoBackends == [DEPTH_BACKEND |-> "torch", DETECTOR_BACKEND |-> "torch",
               _backend_registry |-> [n \in {"torch", "onnx"} |-> "builds"],
               _depth_estimator_factory |-> "default",
               _depth_estimator |-> None, _detector_instance |-> None,
               instances |-> 0, calls |-> 0, epoch |-> NoEpoch, last |-> NoResolve]

\* camera.py 22-27: the state after __init__.  _cap is the index in `devices`
\* of the capture that open_camera() returned; `devices` records which of the
\* captures opened so far are still open.
NoCamera == [_refcount |-> 0, _cap |-> None, _running |-> FALSE, _reader_task |-> "none",
             pc |-> "idle", devices |-> <<>>, calls |-> 0,
             last |-> [op |-> "none", raised |-> "none"]]

NoMeta == [built |-> FALSE, w |-> 0, h |-> 0, detections |-> <<>>, det_payload |-> <<>>,
           frame_id |-> 0, fps |-> None]

NoDepth == [update_id |-> -1, last_depths |-> <<>>, calls |-> 0,
            last |-> [frame |-> None, dets |-> <<>>, returned |-> <<>>, cached |-> FALSE]]

NoInterp == [history |-> <<>>, target_frame_id |-> None, confidence_decay |-> None,
             result |-> <<>>]

Init ==
    /\ active_connections = {}
    /\ ws_pc = [w \in WS |-> WsIdle("fresh")]
    /\ _streamer_url = FALSE
    /\ _webcam_session = None
    /\ sessions = [s \in SessionIds |-> "unused"]
    /\ _processing_task = None
    /\ tasks = [t \in RunIds |-> UnusedTask]
    /\ _inference_task = NoPass
    /\ passes = {}
    /\ _tracked_objects = {}
    /\ _next_track_id = 0
    /\ tm_tracked_objects = <<>>
    /\ tm_next_track_id = 0
    /\ tm_calls = 0
    /\ tm_last = NoCall
    /\ tm_assigned = [ever |-> {}, epoch |-> {}]
    /\ interp = NoInterp
    /\ scaling = NoScaling
    /\ sampling = NoSampling
    /\ detector = NoDetector
    /\ backends = NoBackends
    /\ camera = NoCamera
    /\ meta = NoMeta
    /\ depth = NoDepth

done(t) == tasks[t].status = "done"

FreeSessions == {s \in SessionIds : sessions[s] = "unused"}
FreeRuns == {t \in RunIds : tasks[t].status = "unused"}
Lowest(S) == CHOOSE x \in S : \A y \in S : x <= y

\* ------------------------------------------------------- _stop_processing
\* History: an unfinished pass that exists when a stop returns was dispatched
\* before that stop.
MarkStale(ps) == {IF p.pc = "done" THEN p ELSE [p EXCEPT !.stale = TRUE] : p \in ps}

\* manager.py 188-192: the tail of _stop_processing, then return to the caller
\* (connect() leaves the socket attached, disconnect() leaves it gone).
StopReturn(w, kind) ==
    /\ _tracked_objects' = {}
    /\ _next_track_id' = 0
    /\ passes' = MarkStale(passes)
    /\ ws_pc' = [ws_pc EXCEPT ![w] =
                    WsIdle(IF kind = "connect" THEN "attached" ELSE "gone")]

\* manager.py 184-186 up to the await of close(); close() suspends only when
\* the session holds a peer connection (session.py 119-130).
StopSession(w, kind) ==
    IF _webcam_session # None
    THEN /\ sessions' = [sessions EXCEPT ![_webcam_session] = "closed"]
         /\ IF sessions[_webcam_session] = "open"
            THEN /\ ws_pc' = [ws_pc EXCEPT ![w] = [pc |-> "s_close", arg |-> kind]]
                 /\ UNCHANGED <<_webcam_session, _tracked_objects, _next_track_id, passes>>
            ELSE /\ _webcam_session' = None
                 /\ StopReturn(w, kind)
    ELSE /\ UNCHANGED <<sessions, _webcam_session>>
         /\ StopReturn(w, kind)

\* manager.py 174-182: entry of _stop_processing, called by websocket w's
\* handler from disconnect() or from the except branch of _start_processing.
\* The inference task is not touched.
StopBegin(w, kind) ==
    /\ UNCHANGED _inference_task
    /\ IF _processing_task # None
       THEN IF done(_processing_task)
            THEN /\ _processing_task' = None
                 /\ UNCHANGED tasks
                 /\ StopSession(w, kind)
            ELSE /\ tasks' = [tasks EXCEPT ![_processing_task].cancel = TRUE]
                 /\ ws_pc' = [ws_pc EXCEPT ![w] =
                        [pc |-> IF kind = "connect" THEN "cs_task" ELSE "ds_task",
                         arg |-> _processing_task]]
                 /\ UNCHANGED <<_processing_task, _webcam_session, sessions,
                                _tracked_objects, _next_track_id, passes>>
       ELSE /\ UNCHANGED <<_processing_task, tasks>>
            /\ StopSession(w, kind)

\* manager.py 179-182: the awaited task has finished.
StopTaskAwaited(w) ==
    /\ UNCHANGED harness_vars
    /\ ws_pc[w].pc \in {"cs_task", "ds_task"}
    /\ done(ws_pc[w].arg)
    /\ _processing_task' = None
    /\ UNCHANGED <<active_connections, _streamer_url, tasks, _inference_task>>
    /\ StopSession(w, IF ws_pc[w].pc = "cs_task" THEN "connect" ELSE "disconnect")

\* manager.py 185-192: close() has finished.
StopSessionClosed(w) ==
    /\ UNCHANGED harness_vars
    /\ ws_pc[w].pc = "s_close"
    /\ _webcam_session' = None
    /\ UNCHANGED <<active_connections, _streamer_url, sessions, _processing_task,
                   tasks, _inference_task>>
    /\ StopReturn(w, ws_pc[w].arg)

\* ------------------------------------------------------ _start_processing
\* manager.py 162-163: construct the session and call connect() on it.
StartSession(w) ==
    /\ FreeSessions # {}
    /\ LET s == Lowest(FreeSessions) IN
        /\ _webcam_session' = s
        /\ sessions' = [sessions EXCEPT ![s] = "open"]
        /\ ws_pc' = [ws_pc EXCEPT ![w] = [pc |-> "c_sess", arg |-> s]]
    /\ UNCHANGED <<_processing_task, tasks, _inference_task, passes,
                   _tracked_objects, _next_track_id>>

\* manager.py 147-160
StartBegin(w) ==
    IF _processing_task # None /\ ~done(_processing_task)
    THEN /\ ws_pc' = [ws_pc EXCEPT ![w] = WsIdle("attached")]
         /\ UNCHANGED <<_webcam_session, sessions, _processing_task, tasks,
                        _inference_task, passes, _tracked_objects, _next_track_id>>
    ELSE IF ~_streamer_url
         THEN /\ ws_pc' = [ws_pc EXCEPT ![w] = WsIdle("c_url")]
              /\ UNCHANGED <<_webcam_session, sessions, _processing_task, tasks,
                             _inference_task, passes, _tracked_objects, _next_track_id>>
         ELSE StartSession(w)

\* manager.py 113-120 (the code after websocket.accept() returned).  Each
\* websocket object is accepted once; they are numbered in the order in
\* which they connect.
connect(w) ==
    /\ UNCHANGED harness_vars
    /\ ws_pc[w].pc = "fresh"
    /\ \A v \in WS : v < w => ws_pc[v].pc # "fresh"
    /\ active_connections' = active_connections \cup {w}
    /\ UNCHANGED _streamer_url
    /\ IF Cardinality(active_connections \cup {w}) = 1
       THEN StartBegin(w)
       ELSE /\ ws_pc' = [ws_pc EXCEPT ![w] = WsIdle("attached")]
            /\ UNCHANGED <<_webcam_session, sessions, _processing_task, tasks,
                           _inference_task, passes, _tracked_objects, _next_track_id>>

\* manager.py 122-126
set_streamer_url ==
    /\ UNCHANGED harness_vars
    /\ ~_streamer_url
    /\ _streamer_url' = TRUE
    /\ UNCHANGED <<active_connections, ws_pc, _webcam_session, sessions,
                   _processing_task, tasks, _inference_task, passes,
                   _tracked_objects, _next_track_id>>

\* manager.py 156-163: the URL event fired while waiting.
StartUrlReady(w) ==
    /\ UNCHANGED harness_vars
    /\ ws_pc[w].pc = "c_url"
    /\ _streamer_url
    /\ UNCHANGED <<active_connections, _streamer_url>>
    /\ StartSession(w)

\* manager.py 156, 170-172: wait_for timed out before a URL was set.
StartUrlTimeout(w) ==
    /\ UNCHANGED harness_vars
    /\ ws_pc[w].pc = "c_url"
    /\ ~_streamer_url
    /\ UNCHANGED <<active_connections, _streamer_url>>
    /\ StopBegin(w, "connect")

\* manager.py 163-168: WebcamSession.connect() returned a track.
StartConnected(w) ==
    /\ UNCHANGED harness_vars
    /\ ws_pc[w].pc = "c_sess"
    /\ FreeRuns # {}
    /\ LET t == Lowest(FreeRuns) IN
        /\ _processing_task' = t
        /\ tasks' = [tasks EXCEPT ![t] = ProcessingState]
    /\ ws_pc' = [ws_pc EXCEPT ![w] = WsIdle("attached")]
    /\ UNCHANGED <<active_connections, _streamer_url, _webcam_session, sessions,
                   _inference_task, passes, _tracked_objects, _next_track_id>>

\* manager.py 163, 170-172: WebcamSession.connect() raised.
StartConnectFailed(w) ==
    /\ UNCHANGED harness_vars
    /\ ws_pc[w].pc = "c_sess"
    /\ UNCHANGED <<active_connections, _streamer_url>>
    /\ StopBegin(w, "connect")

\* manager.py 128-134, called by the route handler after connect() returned
disconnect(w) ==
    /\ UNCHANGED harness_vars
    /\ ws_pc[w].pc = "attached"
    /\ active_connections' = active_connections \ {w}
    /\ UNCHANGED _streamer_url
    /\ IF active_connections \ {w} = {}
       THEN StopBegin(w, "disconnect")
       ELSE /\ ws_pc' = [ws_pc EXCEPT ![w] = WsIdle("gone")]
            /\ UNCHANGED <<_webcam_session, sessions, _processing_task, tasks,
                           _inference_task, passes, _tracked_objects, _next_track_id>>

\* -------------------------------------------------------- _process_frames
\* manager.py 280: the loop test made after an iteration; the task returns
\* when no subscriber is attached, otherwise it suspends in track.recv().
Finished(st) ==
    [st EXCEPT !.status = "done", !.pc = "done", !.cancel = FALSE,
               !.consecutive_errors = 0, !.fails = 0]

\* The ProcessingState of a finished task that no unfinished pass refers to
\* is unreachable; it is represented by its initial value.
Release(tk, ps) ==
    [t \in RunIds |->
        IF tk[t].status = "done" /\ \A p \in ps : p.pc # "done" => p.run # t
        THEN [tk[t] EXCEPT !.frame_id = 0]
        ELSE tk[t]]

LoopCheck(st) ==
    IF active_connections = {}
    THEN Finished(st)
    ELSE [st EXCEPT !.pc = "recv"]

Awaiting(t, pc) ==
    /\ tasks[t].status = "running"
    /\ tasks[t].pc = pc
    /\ ~tasks[t].cancel

\* manager.py 272-280: first scheduling of the task.
TaskStart(t) ==
    /\ UNCHANGED harness_vars
    /\ Awaiting(t, "start")
    /\ tasks' = Release([tasks EXCEPT ![t] = LoopCheck(tasks[t])], passes)
    /\ UNCHANGED <<active_connections, ws_pc, _streamer_url, _webcam_session,
                   sessions, _processing_task, _inference_task, passes,
                   _tracked_objects, _next_track_id>>

\* manager.py 306-307: CancelledError is thrown into the task at the await it
\* is suspended in (or the task is cancelled before its first step).
TaskCancelled(t) ==
    /\ UNCHANGED harness_vars
    /\ tasks[t].status = "running"
    /\ tasks[t].cancel
    /\ tasks' = Release([tasks EXCEPT ![t] = Finished(tasks[t])], passes)
    /\ UNCHANGED <<active_connections, ws_pc, _streamer_url, _webcam_session,
                   sessions, _processing_task, _inference_task, passes,
                   _tracked_objects, _next_track_id>>

PassId(p) == <<p.run, p.frame>>
LatestPass == {p \in passes : PassId(p) = _inference_task}
\* self._inference_task.done()
inference_done == \A p \in LatestPass : p.pc = "done"

NewPass(t, f) ==
    [run |-> t, frame |-> f, pc |-> "start", stale |-> FALSE, outcome |-> "none",
     msg_frame |-> 0, S |-> {}, todo |-> {}, dead |-> {}, cnt |-> [w \in WS |-> 0],
     pruned |-> FALSE]

FrameDropped_DoneOnly == _inference_task # NoPass /\ inference_done

\* manager.py 292-294: smart frame dropping.
FrameDropped == _inference_task # NoPass /\ ~inference_done

\* manager.py 282-300 with 326-328 and 364-366: recv() delivered a frame that
\* converts to an array.
RecvFrame(t) ==
    /\ UNCHANGED harness_vars
    /\ Awaiting(t, "recv")
    /\ tasks[t].frame_id < MaxFrame
    /\ LET f == tasks[t].frame_id + 1
            st == [tasks[t] EXCEPT !.consecutive_errors = 0, !.fails = 0,
                                   !.frame_id = f]
        IN  /\ IF FrameDropped
               THEN UNCHANGED <<_inference_task, passes>>
               ELSE /\ _inference_task' = <<t, f>>
                    /\ passes' = {p \in passes : p.pc # "done"} \cup {NewPass(t, f)}
            /\ tasks' = Release([tasks EXCEPT ![t] = LoopCheck(st)], passes')
    /\ UNCHANGED <<active_connections, ws_pc, _streamer_url, _webcam_session,
                   sessions, _processing_task, _tracked_objects, _next_track_id>>

\* manager.py 326-328, 367-372, 283-284: the received object has no to_ndarray.
RecvNoArray(t) ==
    /\ UNCHANGED harness_vars
    /\ Awaiting(t, "recv")
    /\ tasks' = Release([tasks EXCEPT ![t] =
                    LoopCheck([tasks[t] EXCEPT !.consecutive_errors = 0, !.fails = 0])],
                         passes)
    /\ UNCHANGED <<active_connections, ws_pc, _streamer_url, _webcam_session,
                   sessions, _processing_task, _inference_task, passes,
                   _tracked_objects, _next_track_id>>

\* manager.py 329-339 and 302-304: wait_for timed out.  At the ceiling the
\* raised exception is caught by the handler inside the loop, which sleeps.
AfterTimeout(st) ==
    LET st1 == [st EXCEPT !.consecutive_errors = @ + 1, !.fails = @ + 1] IN
    IF st1.consecutive_errors >= max_consecutive_errors
    THEN [st1 EXCEPT !.pc = "sleep"]
    ELSE LoopCheck(st1)

RecvTimeout(t) ==
    /\ UNCHANGED harness_vars
    /\ Awaiting(t, "recv")
    /\ tasks[t].consecutive_errors < MaxConsecutive
    /\ tasks' = Release([tasks EXCEPT ![t] = AfterTimeout(tasks[t])], passes)
    /\ UNCHANGED <<active_connections, ws_pc, _streamer_url, _webcam_session,
                   sessions, _processing_task, _inference_task, passes,
                   _tracked_objects, _next_track_id>>

\* manager.py 340-348 and 361: recv() raised.  Below the ceiling the task
\* sleeps 0.1 s; at the ceiling it closes the current session (if any) and
\* sleeps 1 s (the await of close() and the sleep are one suspension here).
RecvError(t) ==
    /\ UNCHANGED harness_vars
    /\ Awaiting(t, "recv")
    /\ tasks[t].consecutive_errors < MaxConsecutive
    /\ LET st == [tasks[t] EXCEPT !.consecutive_errors = @ + 1, !.fails = @ + 1] IN
        IF st.consecutive_errors >= max_consecutive_errors
        THEN /\ tasks' = [tasks EXCEPT ![t] = [st EXCEPT !.pc = "rc_sleep"]]
             /\ sessions' = IF _webcam_session # None
                            THEN [sessions EXCEPT ![_webcam_session] = "closed"]
                            ELSE sessions
        ELSE /\ tasks' = [tasks EXCEPT ![t] = [st EXCEPT !.pc = "sleep"]]
             /\ UNCHANGED sessions
    /\ UNCHANGED <<active_connections, ws_pc, _streamer_url, _webcam_session,
                   _processing_task, _inference_task, passes,
                   _tracked_objects, _next_track_id>>

\* manager.py 348-355: after the pause the current session, if there is one,
\* is asked to connect again; without a session the task goes on to line 361.
ReconnectWake(t) ==
    /\ UNCHANGED harness_vars
    /\ Awaiting(t, "rc_sleep")
    /\ IF _webcam_session # None
       THEN /\ sessions' = [sessions EXCEPT ![_webcam_session] = "open"]
            /\ tasks' = [tasks EXCEPT ![t].pc = "rc_connect"]
       ELSE /\ tasks' = [tasks EXCEPT ![t].pc = "sleep"]
            /\ UNCHANGED sessions
    /\ UNCHANGED <<active_connections, ws_pc, _streamer_url, _webcam_session,
                   _processing_task, _inference_task, passes,
                   _tracked_objects, _next_track_id>>

AfterReconnectOk_KeepCount(st) == [st EXCEPT !.fails = 0, !.pc = "sleep"]

\* manager.py 355-357, 361: connect() returned a new track.
AfterReconnectOk(st) ==
    [st EXCEPT !.consecutive_errors = 0, !.fails = 0, !.pc = "sleep"]

ReconnectOk(t) ==
    /\ UNCHANGED harness_vars
    /\ Awaiting(t, "rc_connect")
    /\ tasks' = [tasks EXCEPT ![t] = AfterReconnectOk(tasks[t])]
    /\ UNCHANGED <<active_connections, ws_pc, _streamer_url, _webcam_session,
                   sessions, _processing_task, _inference_task, passes,
                   _tracked_objects, _next_track_id>>

\* manager.py 358-360 and 302-304: connect() raised; the re-raised exception
\* is caught by the handler inside the loop, which sleeps 0.1 s.
AfterReconnectFail(st) == [st EXCEPT !.pc = "sleep"]

ReconnectFail(t) ==
    /\ UNCHANGED harness_vars
    /\ Awaiting(t, "rc_connect")
    /\ tasks' = [tasks EXCEPT ![t] = AfterReconnectFail(tasks[t])]
    /\ UNCHANGED <<active_connections, ws_pc, _streamer_url, _webcam_session,
                   sessions, _processing_task, _inference_task, passes,
                   _tracked_objects, _next_track_id>>

\* manager.py 304 / 361 -> 280: a 0.1 s sleep ended, next loop test.
SleepWake(t) ==
    /\ UNCHANGED harness_vars
    /\ Awaiting(t, "sleep")
    /\ tasks' = Release([tasks EXCEPT ![t] = LoopCheck(tasks[t])], passes)
    /\ UNCHANGED <<active_connections, ws_pc, _streamer_url, _webcam_session,
                   sessions, _processing_task, _inference_task, passes,
                   _tracked_objects, _next_track_id>>

\* ------------------------------------------------------- TrackingManager
\* The orchestrator level keeps the ids in the tracker's table and the id
\* counter; boxes, histories and last_seen_frame are not kept here.

\* tracker.py 76-117 for the detections of one frame: the detection is
\* appended to the existing track k, or to a new track when k is the next
\* free id (tracker.py 107-114).
MatchTargets ==
    _tracked_objects \cup
        (IF _next_track_id < MaxTracks THEN {_next_track_id} ELSE {})

match_detections_to_tracks(trk, k) == trk \cup {k}

\* tracker.py 149-171: the tracks _remove_stale_tracks may delete are those
\* not seen in this frame; which of them are stale depends on their
\* last_seen_frame, so any of them may go.
_remove_stale_tracks(trk, k) == {kept \in SUBSET trk : k \in kept}

\* ------------------------------------------------ _run_inference_pipeline
sample_rate_AtThreshold(fps) == IF fps <= fps_threshold THEN 2 ELSE 4

\* manager.py 491
sample_rate(fps) == IF fps < fps_threshold THEN 2 ELSE 4

Finish(p, outcome) == [p EXCEPT !.pc = "done", !.outcome = outcome, !.stale = FALSE]

Step(p, q) == passes' = (passes \ {p}) \cup {q}

\* manager.py 486-502 up to the await of detector.infer(); the pass reads the
\* shared ProcessingState of its run.
AfterStart(p, fps) ==
    IF active_connections = {}
    THEN Finish(p, "noconn")
    ELSE IF tasks[p.run].frame_id % sample_rate(fps) # 0
         THEN Finish(p, "skipped")
         ELSE [p EXCEPT !.pc = "infer"]

PassStart(p) ==
    /\ UNCHANGED harness_vars
    /\ p.pc = "start"
    /\ \E fps \in FpsValues : Step(p, AfterStart(p, fps))
    /\ tasks' = Release(tasks, passes')
    /\ UNCHANGED <<active_connections, ws_pc, _streamer_url, _webcam_session,
                   sessions, _processing_task, _inference_task,
                   _tracked_objects, _next_track_id>>

\* manager.py 420-423 and 509: the detector found nothing.
PassNoDetections(p) ==
    /\ UNCHANGED harness_vars
    /\ p.pc = "infer"
    /\ Step(p, Finish(p, "empty"))
    /\ tasks' = Release(tasks, passes')
    /\ UNCHANGED <<active_connections, ws_pc, _streamer_url, _webcam_session,
                   sessions, _processing_task, _inference_task,
                   _tracked_objects, _next_track_id>>

\* manager.py 420-432: detections found, depth estimation handed to the executor.
PassDetected(p) ==
    /\ UNCHANGED harness_vars
    /\ p.pc = "infer"
    /\ Step(p, [p EXCEPT !.pc = "depth"])
    /\ tasks' = Release(tasks, passes')
    /\ UNCHANGED <<active_connections, ws_pc, _streamer_url, _webcam_session,
                   sessions, _processing_task, _inference_task,
                   _tracked_objects, _next_track_id>>

AfterRaise_Unfinished(p) == [p EXCEPT !.outcome = "error"]

\* manager.py 519-520: the exception handler of the pass.
AfterRaise(p) == Finish(p, "error")

\* manager.py 420 / 430 with 519-520: detection or depth estimation raised.
PassRaise(p) ==
    /\ UNCHANGED harness_vars
    /\ p.pc \in {"infer", "depth"}
    /\ Step(p, AfterRaise(p))
    /\ tasks' = Release(tasks, passes')
    /\ UNCHANGED <<active_connections, ws_pc, _streamer_url, _webcam_session,
                   sessions, _processing_task, _inference_task,
                   _tracked_objects, _next_track_id>>

\* manager.py 437, 457, 472, 614: the frame id the pass uses after its awaits.
PassFrameId(p) == tasks[p.run].frame_id

\* manager.py 522-528: _send_metadata takes its snapshot of the subscribers.
BeginBroadcast(p, fid) ==
    [p EXCEPT !.msg_frame = fid, !.S = active_connections,
              !.todo = active_connections, !.pc = "send"]

\* manager.py 472: the pass has called _remove_stale_tracks.
Pruned(p) == [p EXCEPT !.pruned = TRUE]

\* manager.py 434-474, 509-517, 598-617, 522-528: depth estimation returned.
\* Matching, interpolation, pruning and message building run without an
\* await; res is how that stretch ends.
PassTrack(p) ==
    /\ UNCHANGED harness_vars
    /\ p.pc = "depth"
    /\ \E k \in MatchTargets, res \in {"nodets", "error", "send"} :
        LET fid == PassFrameId(p) IN
        /\ _tracked_objects' \in
              _remove_stale_tracks(match_detections_to_tracks(_tracked_objects, k), k)
        /\ _next_track_id' = IF k = _next_track_id THEN k + 1 ELSE _next_track_id
        /\ Step(p, IF res = "nodets" THEN Finish(Pruned(p), "nodets")
                   ELSE IF res = "error" THEN AfterRaise(p)
                   ELSE IF active_connections = {}
                        THEN Finish(BeginBroadcast(Pruned(p), fid), "sent")
                        ELSE BeginBroadcast(Pruned(p), fid))
    /\ tasks' = Release(tasks, passes')
    /\ UNCHANGED <<active_connections, ws_pc, _streamer_url, _webcam_session,
                   sessions, _processing_task, _inference_task>>

\* manager.py 528-532: one send_text() returned (ok) or raised.
AfterSend_AllDead(p, w, ok) ==
    [p EXCEPT !.todo = @ \ {w},
              !.cnt[w] = IF ok THEN @ + 1 ELSE @,
              !.dead = @ \cup {w}]

AfterSend(p, w, ok) ==
    [p EXCEPT !.todo = @ \ {w},
              !.cnt[w] = IF ok THEN @ + 1 ELSE @,
              !.dead = IF ok THEN @ ELSE @ \cup {w}]

RemoveDead_Keep(conns, dead) == conns

\* manager.py 535
RemoveDead(conns, dead) == conns \ dead

\* manager.py 528-535: the send to w ended; after the last one the dead
\* subscribers are removed.
PassSend(p, w, ok) ==
    /\ UNCHANGED harness_vars
    /\ p.pc = "send"
    /\ w \in p.todo
    /\ LET q == AfterSend(p, w, ok) IN
        IF q.todo = {}
        THEN /\ active_connections' = RemoveDead(active_connections, q.dead)
             /\ Step(p, Finish(q, "sent"))
        ELSE /\ Step(p, q)
             /\ UNCHANGED active_connections
    /\ tasks' = Release(tasks, passes')
    /\ UNCHANGED <<ws_pc, _streamer_url, _webcam_session, sessions,
                   _processing_task, _inference_task,
                   _tracked_objects, _next_track_id>>

Next ==
    \/ \E w \in WS : connect(w)
    \/ \E w \in WS : disconnect(w)
    \/ set_streamer_url
    \/ \E w \in WS : StartUrlReady(w)
    \/ \E w \in WS : StartUrlTimeout(w)
    \/ \E w \in WS : StartConnected(w)
    \/ \E w \in WS : StartConnectFailed(w)
    \/ \E w \in WS : StopTaskAwaited(w)
    \/ \E w \in WS : StopSessionClosed(w)
    \/ \E t \in RunIds : TaskStart(t)
    \/ \E t \in RunIds : TaskCancelled(t)
    \/ \E t \in RunIds : RecvFrame(t)
    \/ \E t \in RunIds : RecvNoArray(t)
    \/ \E t \in RunIds : RecvTimeout(t)
    \/ \E t \in RunIds : RecvError(t)
    \/ \E t \in RunIds : ReconnectWake(t)
    \/ \E t \in RunIds : ReconnectOk(t)
    \/ \E t \in RunIds : ReconnectFail(t)
    \/ \E t \in RunIds : SleepWake(t)
    \/ \E p \in passes : PassStart(p)
    \/ \E p \in passes : PassNoDetections(p)
    \/ \E p \in passes : PassDetected(p)
    \/ \E p \in passes : PassRaise(p)
    \/ \E p \in passes : PassTrack(p)
    \/ \E p \in passes, w \in WS, ok \in BOOLEAN : PassSend(p, w, ok)

Spec == Init /\ [][Next]_vars

\* The same program fed by an upstream track that never raises: recv() either
\* delivers a frame or runs into the 5 s timeout.
NextTimeouts ==
    \/ \E w \in WS : connect(w)
    \/ \E w \in WS : disconnect(w)
    \/ set_streamer_url
    \/ \E w \in WS : StartUrlReady(w)
    \/ \E w \in WS : StartUrlTimeout(w)
    \/ \E w \in WS : StartConnected(w)
    \/ \E w \in WS : StartConnectFailed(w)
    \/ \E w \in WS : StopTaskAwaited(w)
    \/ \E w \in WS : StopSessionClosed(w)
    \/ \E t \in RunIds : TaskStart(t)
    \/ \E t \in RunIds : TaskCancelled(t)
    \/ \E t \in RunIds : RecvFrame(t)
    \/ \E t \in RunIds : RecvNoArray(t)
    \/ \E t \in RunIds : RecvTimeout(t)
    \/ \E t \in RunIds : SleepWake(t)
    \/ \E p \in passes : PassStart(p)
    \/ \E p \in passes : PassNoDetections(p)
    \/ \E p \in passes : PassDetected(p)
    \/ \E p \in passes : PassRaise(p)
    \/ \E p \in passes : PassTrack(p)
    \/ \E p \in passes, w \in WS, ok \in BOOLEAN : PassSend(p, w, ok)

SpecTimeouts == Init /\ [][NextTimeouts]_vars

\* The same program fed by an upstream track that delivers every time recv()
\* is awaited (no timeout, no exception).
NextSteady ==
    \/ \E w \in WS : connect(w)
    \/ \E w \in WS : disconnect(w)
    \/ set_streamer_url
    \/ \E w \in WS : StartUrlReady(w)
    \/ \E w \in WS : StartUrlTimeout(w)
    \/ \E w \in WS : StartConnected(w)
    \/ \E w \in WS : StartConnectFailed(w)
    \/ \E w \in WS : StopTaskAwaited(w)
    \/ \E w \in WS : StopSessionClosed(w)
    \/ \E t \in RunIds : TaskStart(t)
    \/ \E t \in RunIds : TaskCancelled(t)
    \/ \E t \in RunIds : RecvFrame(t)
    \/ \E t \in RunIds : RecvNoArray(t)
    \/ \E p \in passes : PassStart(p)
    \/ \E p \in passes : PassNoDetections(p)
    \/ \E p \in passes : PassDetected(p)
    \/ \E p \in passes : PassRaise(p)
    \/ \E p \in passes : PassTrack(p)
    \/ \E p \in passes, w \in WS, ok \in BOOLEAN : PassSend(p, w, ok)

SpecSteady == Init /\ [][NextSteady]_vars

\* The event loop resumes a handler or a task whose awaited event has
\* happened: the URL event is set or the 30 s wait runs out (manager.py 156),
\* WebcamSession.connect() returns while the upstream accepts connections
\* (163), the cancelled task ends (179), close() returns (185), and a created
\* or cancelled task gets its turn.  Clients and the operator are not
\* obliged to do anything, and connect() is not obliged to raise.
Scheduling ==
    /\ WF_vars(\E w \in WS : StartUrlReady(w))
    /\ WF_vars(\E w \in WS : StartUrlTimeout(w))
    /\ WF_vars(\E w \in WS : StartConnected(w))
    /\ WF_vars(\E w \in WS : StopTaskAwaited(w))
    /\ WF_vars(\E w \in WS : StopSessionClosed(w))
    /\ WF_vars(\E t \in RunIds : TaskStart(t))
    /\ WF_vars(\E t \in RunIds : TaskCancelled(t))

SpecLive == Init /\ [][NextSteady]_vars /\ Scheduling

\* No route handler is inside a connect() or disconnect() call.
NoCallInProgress == \A w \in WS : ws_pc[w].pc \in {"fresh", "attached", "gone"}

\* routes.py 369-390 with clients that arrive and leave one at a time: a
\* handler calls connect() or disconnect() only when no other handler is
\* inside such a call.
SerialConnect(w) == NoCallInProgress /\ connect(w)

SerialDisconnect(w) == NoCallInProgress /\ disconnect(w)

\* The whole program, upstream failures included, with such clients.
NextSerial ==
    \/ \E w \in WS : SerialConnect(w)
    \/ \E w \in WS : SerialDisconnect(w)
    \/ set_streamer_url
    \/ \E w \in WS : StartUrlReady(w)
    \/ \E w \in WS : StartUrlTimeout(w)
    \/ \E w \in WS : StartConnected(w)
    \/ \E w \in WS : StartConnectFailed(w)
    \/ \E w \in WS : StopTaskAwaited(w)
    \/ \E w \in WS : StopSessionClosed(w)
    \/ \E t \in RunIds : TaskStart(t)
    \/ \E t \in RunIds : TaskCancelled(t)
    \/ \E t \in RunIds : RecvFrame(t)
    \/ \E t \in RunIds : RecvNoArray(t)
    \/ \E t \in RunIds : RecvTimeout(t)
    \/ \E t \in RunIds : RecvError(t)
    \/ \E t \in RunIds : ReconnectWake(t)
    \/ \E t \in RunIds : ReconnectOk(t)
    \/ \E t \in RunIds : ReconnectFail(t)
    \/ \E t \in RunIds : SleepWake(t)
    \/ \E p \in passes : PassStart(p)
    \/ \E p \in passes : PassNoDetections(p)
    \/ \E p \in passes : PassDetected(p)
    \/ \E p \in passes : PassRaise(p)
    \/ \E p \in passes : PassTrack(p)
    \/ \E p \in passes, w \in WS, ok \in BOOLEAN : PassSend(p, w, ok)

SpecSerial == Init /\ [][NextSerial]_vars

\* routes.py 371-378: every client gets a WebSocket object of its own.  Once
\* the handler of websocket w has returned and no broadcast snapshot holds w,
\* the id w stands for the WebSocket object of a later client.
NewWebSocket(w) ==
    /\ UNCHANGED harness_vars
    /\ ws_pc[w].pc = "gone"
    /\ \A p \in passes : w \notin p.S
    /\ ws_pc' = [ws_pc EXCEPT ![w] = WsIdle("fresh")]
    /\ UNCHANGED <<active_connections, _streamer_url, _webcam_session, sessions,
                   _processing_task, tasks, _inference_task, passes,
                   _tracked_objects, _next_track_id>>

\* manager.py 166: create_task() makes a new Task object.  The id of a
\* finished task that no attribute, awaiting handler or pass refers to
\* stands for a task created later.
ReleaseRun(t) ==
    /\ UNCHANGED harness_vars
    /\ done(t)
    /\ t # _processing_task
    /\ \A w \in WS : ws_pc[w].pc \in {"cs_task", "ds_task"} => ws_pc[w].arg # t
    /\ \A p \in passes : p.run # t
    /\ tasks' = [tasks EXCEPT ![t] = UnusedTask]
    /\ UNCHANGED <<active_connections, ws_pc, _streamer_url, _webcam_session,
                   sessions, _processing_task, _inference_task, passes,
                   _tracked_objects, _next_track_id>>

\* manager.py 162: WebcamSession(url) makes a new object.  The id of a closed
\* session that nothing refers to stands for a session constructed later.
ReleaseSession(s) ==
    /\ UNCHANGED harness_vars
    /\ sessions[s] = "closed"
    /\ s # _webcam_session
    /\ \A w \in WS : ws_pc[w].pc = "c_sess" => ws_pc[w].arg # s
    /\ sessions' = [sessions EXCEPT ![s] = "unused"]
    /\ UNCHANGED <<active_connections, ws_pc, _streamer_url, _webcam_session,
                   _processing_task, tasks, _inference_task, passes,
                   _tracked_objects, _next_track_id>>

\* The program with a steady upstream and clients that keep arriving: at most
\* NumWS websockets exist at a time, any number over a behaviour.
NextChurn ==
    \/ \E w \in WS : connect(w)
    \/ \E w \in WS : disconnect(w)
    \/ \E w \in WS : NewWebSocket(w)
    \/ \E t \in RunIds : ReleaseRun(t)
    \/ \E s \in SessionIds : ReleaseSession(s)
    \/ set_streamer_url
    \/ \E w \in WS : StartUrlReady(w)
    \/ \E w \in WS : StartUrlTimeout(w)
    \/ \E w \in WS : StartConnected(w)
    \/ \E w \in WS : StartConnectFailed(w)
    \/ \E w \in WS : StopTaskAwaited(w)
    \/ \E w \in WS : StopSessionClosed(w)
    \/ \E t \in RunIds : TaskStart(t)
    \/ \E t \in RunIds : TaskCancelled(t)
    \/ \E t \in RunIds : RecvFrame(t)
    \/ \E t \in RunIds : RecvNoArray(t)
    \/ \E p \in passes : PassStart(p)
    \/ \E p \in passes : PassNoDetections(p)
    \/ \E p \in passes : PassDetected(p)
    \/ \E p \in passes : PassRaise(p)
    \/ \E p \in passes : PassTrack(p)
    \/ \E p \in passes, w \in WS, ok \in BOOLEAN : PassSend(p, w, ok)

SpecChurn == Init /\ [][NextChurn]_vars

\* ------------------------------------------ TrackingManager, call by call
\* tracker.py and tracked_object.py with test_tracking.py as the caller: one
\* TrackingManager is constructed and its methods are called in any order
\* with arguments from small sets.

MaxCalls == 3             \* calls made on the TrackingManager

\* tracker.py 32-36 and manager.py 102: the constructor arguments of this
\* TrackingManager; the two IoU thresholds are in tenths (0.3 and 0.9).
iou_threshold == 3
early_termination_iou == 9
max_frames_without_detection == 1
max_history_size == 2
detection_threshold == 2

\* Boxes (x1, y1, x2, y2).  IoU(A,B) = 0.6, IoU(B,C) = 1/3, IoU(A,C) = 1/7;
\* Z has no area.
BoxA == <<0, 0, 4, 4>>
BoxB == <<1, 0, 5, 4>>
BoxC == <<3, 0, 7, 4>>
BoxZ == <<0, 0, 0, 4>>

Detections ==
    {[box |-> b, cls_id |-> 0] : b \in {BoxA, BoxB, BoxC, BoxZ}}
        \cup {[box |-> BoxA, cls_id |-> 1]}

\* The detections that come second in a list of two; the first is box A of
\* class 0.
Paired == {d \in Detections : d.cls_id = 0 /\ d.box \in {BoxA, BoxB}}

DetectionLists ==
    {<<>>} \cup {<<d>> : d \in Detections}
           \cup {<<[box |-> BoxA, cls_id |-> 0], e>> : e \in Paired}

TrackerFrames == 1..(max_frames_without_detection + 2)

Smaller(a, b) == IF a <= b THEN a ELSE b
Larger(a, b) == IF a >= b THEN a ELSE b

Area(b) == Larger(b[3] - b[1], 0) * Larger(b[4] - b[2], 0)

Overlap(a, b) ==
    Larger(Smaller(a[3], b[3]) - Larger(a[1], b[1]), 0)
        * Larger(Smaller(a[4], b[4]) - Larger(a[2], b[2]), 0)

\* Axis-aligned intersection over union as the fraction <<numerator,
\* denominator>>; 0 when the union has no area.
calculate_iou(a, b) ==
    LET inter == Overlap(a, b)
        union == Area(a) + Area(b) - inter
    IN  IF union <= 0 THEN <<0, 1>> ELSE <<inter, union>>

IouGreater(i, j) == i[1] * j[2] > j[1] * i[2]
IouAtLeast_Positive(i, tenths) == i[1] > 0

\* iou >= threshold, the threshold in tenths
IouAtLeast(i, tenths) == i[1] * 10 >= tenths * i[2]

\* tracker.py 60-73: the TrackedDetection built for one detection of the call.
TrackedDetection(det, frame_id) ==
    [box |-> det.box, cls_id |-> det.cls_id, frame_id |-> frame_id]

\* tracker.py 109-113
TrackedObject(track_id, cls_id) ==
    [track_id |-> track_id, cls_id |-> cls_id, history |-> <<>>,
     last_seen_frame |-> None, detection_count |-> 0]

Appended_EvictNewest(history, e) ==
    IF Len(history) >= max_history_size
    THEN Append(SubSeq(history, 1, Len(history) - 1), e)
    ELSE Append(history, e)

\* deque(maxlen=max_history_size).append
Appended(history, e) ==
    IF Len(history) >= max_history_size
    THEN Append(Tail(history), e)
    ELSE Append(history, e)

add_detection_PerFrame(track, detection) ==
    [track EXCEPT !.history = Appended(@, detection),
                  !.last_seen_frame = detection.frame_id,
                  !.detection_count = IF track.last_seen_frame = detection.frame_id
                                      THEN @ + 1 ELSE 1]

\* tracked_object.py 31-35
add_detection(track, detection) ==
    [track EXCEPT !.history = Appended(@, detection),
                  !.last_seen_frame = detection.frame_id,
                  !.detection_count = @ + 1]

is_active_Always(track, threshold) == TRUE

\* tracked_object.py 37-39
is_active(track, threshold) == track.detection_count >= threshold

NoMatch_Full == [found |-> FALSE, track_id |-> None, iou |-> <<1, 1>>]

\* tracker.py 77-78: best_match = None, best_iou = 0.0
NoMatch == [found |-> FALSE, track_id |-> None, iou |-> <<0, 1>>]

StopsScan_Never(iou) == FALSE

\* tracker.py 98-101: a near-perfect match ends the scan
StopsScan(iou) == IouAtLeast(iou, early_termination_iou)

Claimed_Never(track_id, used_track_ids) == FALSE

\* tracker.py 84: the track was given a detection earlier in this call
Claimed(track_id, used_track_ids) == track_id \in used_track_ids

\* tracker.py 77-101: the scan over the table in dict order, which is the
\* order of the ids (tracks are inserted with increasing ids).
RECURSIVE best_match(_, _, _, _, _)
best_match(objs, rest, det, used_track_ids, best) ==
    IF rest = {} THEN best
    ELSE LET track_id == Lowest(rest)
             track == objs[track_id]
             skip == best_match(objs, rest \ {track_id}, det, used_track_ids, best)
         IN  IF track.cls_id # det.cls_id THEN skip
             ELSE IF Claimed(track_id, used_track_ids) THEN skip
             ELSE IF track.history = <<>> THEN skip
             ELSE LET iou == calculate_iou(track.history[Len(track.history)].box, det.box)
                      better == [found |-> TRUE, track_id |-> track_id, iou |-> iou]
                  IN  IF IouGreater(iou, best.iou) /\ IouAtLeast(iou, iou_threshold)
                      THEN IF StopsScan(iou)
                           THEN better
                           ELSE best_match(objs, rest \ {track_id}, det,
                                           used_track_ids, better)
                      ELSE skip

\* The table with track k set to v.
WithTrack(objs, k, v) ==
    [i \in DOMAIN objs \cup {k} |-> IF i = k THEN v ELSE objs[i]]

NewTrackId_FirstFree(objs, next) ==
    Lowest({i \in 0..next : i \notin DOMAIN objs})

\* tracker.py 107-108
NewTrackId(objs, next) == next

\* tracker.py 58 and 76-117: the loop over the detections of one call.  m
\* holds the table, the id counter and the locals used_track_ids and
\* track_id (one per detection, in order).
RECURSIVE match_loop(_, _, _)
match_loop(m, detections, frame_id) ==
    IF detections = <<>> THEN m
    ELSE LET det == TrackedDetection(Head(detections), frame_id)
             best == best_match(m.objs, DOMAIN m.objs, det, m.used_track_ids, NoMatch)
             track_id == IF best.found THEN best.track_id
                         ELSE NewTrackId(m.objs, m.next)
             objs1 == IF best.found THEN m.objs
                      ELSE WithTrack(m.objs, track_id, TrackedObject(track_id, det.cls_id))
             objs2 == [objs1 EXCEPT ![track_id] = add_detection(@, det)]
         IN  match_loop([objs |-> objs2,
                         next |-> IF best.found THEN m.next ELSE m.next + 1,
                         used_track_ids |-> m.used_track_ids \cup {track_id},
                         assignments |-> Append(m.assignments, track_id),
                         created |-> IF best.found THEN m.created
                                     ELSE m.created \cup {track_id}],
                        Tail(detections), frame_id)

\* tracker.py 40-117
tm_match_detections_to_tracks(objs, next, detections, frame_id) ==
    match_loop([objs |-> objs, next |-> next, used_track_ids |-> {},
                assignments |-> <<>>, created |-> {}],
               detections, frame_id)

_is_track_stale_AtLimit(track, frame_id) ==
    IF track.last_seen_frame = None THEN TRUE
    ELSE frame_id - track.last_seen_frame >= max_frames_without_detection

\* tracker.py 159-171
_is_track_stale(track, frame_id) ==
    IF track.last_seen_frame = None THEN TRUE
    ELSE frame_id - track.last_seen_frame > max_frames_without_detection

\* tracker.py 149-157
tm_remove_stale_tracks(objs, frame_id) ==
    [i \in {k \in DOMAIN objs : ~_is_track_stale(objs[k], frame_id)} |-> objs[i]]

\* Set of the elements of a sequence.
Range(q) == {q[i] : i \in DOMAIN q}

\* The ids of a set as a sequence in increasing order.
RECURSIVE Ascending(_)
Ascending(S) ==
    IF S = {} THEN <<>> ELSE <<Lowest(S)>> \o Ascending(S \ {Lowest(S)})

\* One element of the list _process_detection returns: the track it belongs
\* to, whether it was interpolated, and the track's detection_count when the
\* element was produced.
Entry(track, interpolated) ==
    [track_id |-> track.track_id, cls_id |-> track.cls_id,
     interpolated |-> interpolated, detection_count |-> track.detection_count]

\* manager.py 441-452: a matched detection is kept when its track is active.
FilteredDetections(objs, assignments) ==
    LET kept == SelectSeq(assignments,
                          LAMBDA k : k \in DOMAIN objs
                                       /\ is_active(objs[k], detection_threshold))
    IN  [i \in DOMAIN kept |-> Entry(objs[kept[i]], FALSE)]

\* Every track outside track_ids_to_exclude that has a history entry and
\* passes the activation threshold, in dict order.
get_interpolated_detections_and_distances(objs, frame_id, track_ids_to_exclude) ==
    LET ids == {k \in DOMAIN objs :
                    /\ k \notin track_ids_to_exclude
                    /\ objs[k].history # <<>>
                    /\ is_active(objs[k], detection_threshold)}
        order == Ascending(ids)
    IN  [i \in DOMAIN order |-> Entry(objs[order[i]], TRUE)]

track_ids_to_exclude_None(updated_track_ids, active_track_ids) == {}

\* manager.py 454
track_ids_to_exclude(updated_track_ids, active_track_ids) ==
    updated_track_ids \cup active_track_ids

\* manager.py 454-461: the interpolated entries of the step
Interpolations(m, filtered, frame_id) ==
    get_interpolated_detections_and_distances(
        m.objs, frame_id,
        track_ids_to_exclude(Range(m.assignments),
                             {filtered[i].track_id : i \in DOMAIN filtered}))

\* manager.py 454-474: interpolation for the tracks that were not updated,
\* the combined list, and pruning.  m is the tracker after matching,
\* filtered the matched detections that passed the threshold.
TrackingOutput(m, filtered, frame_id) ==
    [objs |-> tm_remove_stale_tracks(m.objs, frame_id),
     next |-> m.next,
     assignments |-> m.assignments,
     created |-> m.created,
     output |-> filtered \o Interpolations(m, filtered, frame_id),
     is_interpolated |-> [i \in 1..Len(filtered) |-> FALSE]
                            \o [i \in 1..Len(Interpolations(m, filtered, frame_id)) |-> TRUE]]

\* manager.py 441-452
TrackingFilter(m, frame_id) ==
    TrackingOutput(m, FilteredDetections(m.objs, m.assignments), frame_id)

\* manager.py 434-474: the part of _process_detection that uses the tracker;
\* it has no await.
TrackingStep(objs, next, raw_detections, frame_id) ==
    TrackingFilter(tm_match_detections_to_tracks(objs, next, raw_detections, frame_id),
                   frame_id)

Assigned(created) ==
    [ever |-> tm_assigned.ever \cup created, epoch |-> tm_assigned.epoch \cup created]

\* test_tracking.py: a call of match_detections_to_tracks
CallMatch(detections, frame_id) ==
    /\ tm_calls < MaxCalls
    /\ frame_id >= tm_last.frame_id
    /\ LET m == tm_match_detections_to_tracks(tm_tracked_objects, tm_next_track_id,
                                              detections, frame_id)
       IN  /\ tm_tracked_objects' = m.objs
           /\ tm_next_track_id' = m.next
           /\ tm_last' = [op |-> "match", detections |-> detections,
                          frame_id |-> frame_id, assignments |-> m.assignments,
                          created |-> m.created, output |-> <<>>,
                          is_interpolated |-> <<>>]
           /\ tm_assigned' = Assigned(m.created)
    /\ tm_calls' = tm_calls + 1
    /\ UNCHANGED <<pipeline_vars, util_vars>>

\* manager.py 420-474 with detections: the tracking step of one pass
CallProcessDetection(raw_detections, frame_id) ==
    /\ tm_calls < MaxCalls
    /\ raw_detections # <<>>
    /\ frame_id >= tm_last.frame_id
    /\ LET r == TrackingStep(tm_tracked_objects, tm_next_track_id,
                             raw_detections, frame_id)
       IN  /\ tm_tracked_objects' = r.objs
           /\ tm_next_track_id' = r.next
           /\ tm_last' = [op |-> "process", detections |-> raw_detections,
                          frame_id |-> frame_id, assignments |-> r.assignments,
                          created |-> r.created, output |-> r.output,
                          is_interpolated |-> r.is_interpolated]
           /\ tm_assigned' = Assigned(r.created)
    /\ tm_calls' = tm_calls + 1
    /\ UNCHANGED <<pipeline_vars, util_vars>>

\* test_tracking.py 221-243: a call of _remove_stale_tracks
CallRemoveStale(frame_id) ==
    /\ tm_calls < MaxCalls
    /\ frame_id >= tm_last.frame_id
    /\ tm_tracked_objects' = tm_remove_stale_tracks(tm_tracked_objects, frame_id)
    /\ tm_last' = [NoCall EXCEPT !.op = "remove_stale", !.frame_id = frame_id]
    /\ tm_calls' = tm_calls + 1
    /\ UNCHANGED <<tm_next_track_id, tm_assigned>>
    /\ UNCHANGED <<pipeline_vars, util_vars>>

\* tracker.py 144-147
CallClear ==
    /\ tm_calls < MaxCalls
    /\ tm_tracked_objects' = <<>>
    /\ tm_next_track_id' = 0
    /\ tm_last' = [NoCall EXCEPT !.op = "clear", !.frame_id = tm_last.frame_id]
    /\ tm_assigned' = [tm_assigned EXCEPT !.epoch = {}]
    /\ tm_calls' = tm_calls + 1
    /\ UNCHANGED <<pipeline_vars, util_vars>>

NextTracker ==
    \/ \E l \in DetectionLists, f \in TrackerFrames : CallMatch(l, f)
    \/ \E l \in DetectionLists, f \in TrackerFrames : CallProcessDetection(l, f)
    \/ \E f \in TrackerFrames : CallRemoveStale(f)
    \/ CallClear

SpecTracker == Init /\ [][NextTracker]_vars

\* The same TrackingManager called with boxes that overlap one another
\* closely, so that a detection has several candidate tracks.  IoU with
\* NearE: NearD 0.9, NearG 0.6, NearF 0.5; IoU(NearD, NearG) = 2/3,
\* IoU(NearD, NearF) = 5/9, IoU(NearF, NearG) = 5/6.
NearD == <<0, 0, 9, 4>>
NearE == <<0, 0, 10, 4>>
NearF == <<0, 0, 5, 4>>
NearG == <<0, 0, 6, 4>>

NearDetections == {[box |-> b, cls_id |-> 0] : b \in {NearD, NearE, NearF, NearG}}

\* one detection, or two different ones (the second gets a track of its own)
NearLists ==
    {<<d>> : d \in NearDetections}
        \cup {l \in [1..2 -> NearDetections] : l[1] # l[2]}

NextMatching == \E l \in NearLists : CallMatch(l, 1)

SpecMatching == Init /\ [][NextMatching]_vars

\* ----------------------------------------------------- float arithmetic
\* Python floats are binary floating point numbers with round-to-nearest,
\* ties-to-even.  A float is kept here as the integer number of
\* 2^-FracBits units it stands for, with MantissaBits significant bits (53
\* in the interpreter).  Integers of a few bits, their halves and their sums
\* are exact in both; values that use the whole mantissa are rounded in both.

FracBits == 3            \* the smallest step is 1/8
MantissaBits == 6        \* significant bits of a float

RECURSIVE Pow2(_)
Pow2(k) == IF k = 0 THEN 1 ELSE 2 * Pow2(k - 1)

Scale == Pow2(FracBits)

Abs(n) == IF n < 0 THEN -n ELSE n

Sign(n) == IF n < 0 THEN -1 ELSE 1

\* num / den rounded to the nearest integer, ties to the even one (den > 0).
RoundRat(num, den) ==
    LET m == Abs(num) \div den
        r == Abs(num) % den
    IN  Sign(num) * (IF 2 * r < den THEN m
                     ELSE IF 2 * r > den THEN m + 1
                     ELSE IF m % 2 = 0 THEN m ELSE m + 1)

\* The spacing of the floats around a value of magnitude num / den.
RECURSIVE Quantum(_, _, _)
Quantum(num, den, q) ==
    IF Abs(num) < den * q * Pow2(MantissaBits) THEN q ELSE Quantum(num, den, 2 * q)

\* The float nearest to num / den units.
FlRat(num, den) ==
    RoundRat(num, den * Quantum(num, den, 1)) * Quantum(num, den, 1)

FlAdd(x, y) == FlRat(x + y, 1)
FlSub(x, y) == FlRat(x - y, 1)
FlMul(x, y) == FlRat(x * y, Scale)

\* float(i) for an int i, and the float nearest to the fraction a / b.
FromInt(i) == FlRat(i * Scale, 1)
FromRatio(a, b) == IF b < 0 THEN FlRat(-a * Scale, -b) ELSE FlRat(a * Scale, b)

\* int(round(x)): Python's round() goes to the even neighbour on a tie.
IntRound(x) == RoundRat(x, Scale)

\* ---------------------------------------- common/utils: interpolation
\* transforms.py 121-132: val1 + (val2 - val1) * t
lerp(val1, val2, t) == FlAdd(val1, FlMul(FlSub(val2, val1), t))

\* transforms.py 135-146
lerp_int(value1, value2, t) == IntRound(lerp(FromInt(value1), FromInt(value2), t))

clamp_max_One == FromInt(1)

\* tracked_object.py 68: clamp_max=1.5
clamp_max == FromRatio(3, 2)

\* transforms.py 149-166
calculate_interpolation_factor(frame1, frame2, target_frame) ==
    IF frame1 = frame2 THEN 0
    ELSE Larger(0, Smaller(clamp_max, FromRatio(target_frame - frame1, frame2 - frame1)))

\* tracked_object.py 70-76: the interpolated values for the factor t
Interpolated_Gain(tracked1, tracked2, t, target_frame_id, confidence_decay) ==
    [box |-> [i \in 1..4 |-> lerp_int(tracked1.box[i], tracked2.box[i], t)],
     distance |-> lerp(tracked1.distance, tracked2.distance, t),
     confidence |-> FlMul(tracked1.confidence,
                          FlAdd(Scale, FlMul(t, confidence_decay))),
     frame_id |-> target_frame_id]

Interpolated(tracked1, tracked2, t, target_frame_id, confidence_decay) ==
    [box |-> [i \in 1..4 |-> lerp_int(tracked1.box[i], tracked2.box[i], t)],
     distance |-> lerp(tracked1.distance, tracked2.distance, t),
     confidence |-> FlMul(tracked1.confidence,
                          FlSub(Scale, FlMul(t, confidence_decay))),
     frame_id |-> target_frame_id]

\* tracked_object.py 41-88: the result as a sequence, empty for None.
get_interpolated(history, target_frame_id, confidence_decay) ==
    IF Len(history) < 2
    THEN IF Len(history) = 1 THEN <<history[1]>> ELSE <<>>
    ELSE <<Interpolated(history[Len(history) - 1], history[Len(history)],
                        calculate_interpolation_factor(
                            history[Len(history) - 1].frame_id,
                            history[Len(history)].frame_id, target_frame_id),
                        target_frame_id, confidence_decay)>>

\* A TrackedObject whose get_interpolated is called as test_tracking.py
\* 279-389 does: with a history of zero, one or two entries, for a target
\* frame at, between, before or after the frames of the entries.
InterpFrames == 1..3
MaxTarget == 5           \* target frame ids are 0..MaxTarget

InterpBoxes == {<<0, 0, 2, 2>>, <<1, 0, 3, 3>>}

\* Distances in metres: 0.375, 2 and 15.75.
InterpDistances == {FromRatio(3, 8), FromInt(2), FromRatio(63, 4)}

InterpConfidences == {FromRatio(1, 2), FromInt(1)}

\* confidence_decay: 0.125, 0.5 and 1.0
InterpDecays == {FromRatio(1, 8), FromRatio(1, 2), FromInt(1)}

InterpEntries ==
    {[box |-> b, distance |-> d, confidence |-> c, frame_id |-> f] :
        b \in InterpBoxes, d \in InterpDistances, c \in InterpConfidences,
        f \in InterpFrames}

\* Entries of one track follow each other with a different box or a
\* different distance, or are the same detection stored twice.
InterpHistories ==
    {<<>>} \cup {<<e>> : e \in {x \in InterpEntries : x.frame_id = 1}}
           \cup {<<e1, e2>> : e1 \in InterpEntries,
                              e2 \in {x \in InterpEntries : x.confidence = FromInt(1)}}

\* tracked_object.py 41-88 called on a track with the given history
CallGetInterpolated(history, target_frame_id, confidence_decay) ==
    /\ interp = NoInterp
    /\ interp' = [history |-> history, target_frame_id |-> target_frame_id,
                  confidence_decay |-> confidence_decay,
                  result |-> get_interpolated(history, target_frame_id, confidence_decay)]
    /\ UNCHANGED interp_rest

\* the same call for the next frame
CallGetInterpolatedNext ==
    /\ interp # NoInterp
    /\ interp.target_frame_id < MaxTarget
    /\ interp' = [interp EXCEPT
                    !.target_frame_id = @ + 1,
                    !.result = get_interpolated(interp.history, interp.target_frame_id + 1,
                                                interp.confidence_decay)]
    /\ UNCHANGED interp_rest

NextInterp ==
    \/ \E h \in InterpHistories, f \in 0..MaxTarget, d \in InterpDecays :
           CallGetInterpolated(h, f, d)
    \/ CallGetInterpolatedNext

SpecInterp == Init /\ [][NextInterp]_vars

\* ---------------------------------------- adaptive resolution scale
\* config.py 26-33: the adaptive-scale settings, each read from the
\* environment.  TARGET_SCALE_INIT is taken as given: 0.125, 0.75 or 1.5.
MIN_SCALE == FromRatio(1, 4)
MAX_SCALE == FromInt(1)
SMOOTH_FACTOR == FromRatio(1, 4)
TARGET_SCALE_INIT == {FromRatio(1, 8), FromRatio(3, 4), FromRatio(3, 2)}

\* transforms.py 93-118
calculate_adaptive_scale(current_fps, current_scale, smooth_factor, min_scale, max_scale) ==
    LET new_scale ==
            IF current_fps < FromInt(10) THEN FlSub(current_scale, smooth_factor)
            ELSE IF current_fps < FromInt(18)
                 THEN FlSub(current_scale, FlMul(smooth_factor, FromRatio(1, 2)))
                 ELSE FlAdd(current_scale, FlMul(smooth_factor, FromRatio(4, 5)))
    IN  Larger(min_scale, Smaller(max_scale, new_scale))

\* manager.py 374-407 with `elapsed` = current_time - state.last_fps_time
_update_fps_and_scaling(state, elapsed) ==
    IF elapsed >= FromInt(1)
    THEN LET fps == FlRat(state.fps_counter * Scale * Scale, elapsed)
         IN  [state EXCEPT
                !.current_fps = fps,
                !.fps_counter = 0,
                !.target_scale = calculate_adaptive_scale(fps, state.target_scale,
                                     SMOOTH_FACTOR, MIN_SCALE, MAX_SCALE)]
    ELSE state

MaxFpsCounter == 30
FrameBursts == {1, 10, 19}
Elapsed == {FromInt(1), FromInt(2)}

\* manager.py 275-277: _process_frames creates its ProcessingState
StartProcessing(target_scale_init) ==
    /\ scaling = NoScaling
    /\ scaling' = [started |-> TRUE, target_scale |-> target_scale_init,
                   current_fps |-> FromInt(initial_fps), fps_counter |-> 0]
    /\ UNCHANGED scaling_rest

\* manager.py 282-286, n times within the FPS window: the frames are counted
\* and _update_fps_and_scaling changes nothing.
FramesWithinWindow(n) ==
    /\ scaling.started
    /\ scaling.fps_counter + n < MaxFpsCounter
    /\ scaling' = _update_fps_and_scaling(
                      [scaling EXCEPT !.fps_counter = @ + n], FromRatio(1, 2))
    /\ UNCHANGED scaling_rest

\* manager.py 282-286 for the frame that closes the FPS window
FrameClosingWindow(elapsed) ==
    /\ scaling.started
    /\ scaling.fps_counter < MaxFpsCounter
    /\ scaling' = _update_fps_and_scaling(
                      [scaling EXCEPT !.fps_counter = @ + 1], elapsed)
    /\ UNCHANGED scaling_rest

NextScaling ==
    \/ \E i \in TARGET_SCALE_INIT : StartProcessing(i)
    \/ \E n \in FrameBursts : FramesWithinWindow(n)
    \/ \E e \in Elapsed : FrameClosingWindow(e)

SpecScaling == Init /\ [][NextScaling]_vars

\* ---------------------------------------- detection sampling cadence
\* The receive loop and the inference pass of one run, with frame ids up to
\* MaxSampleFrame.  A pass is created by create_task (manager.py 296-300) and
\* starts at a later suspension of the loop; it reads the ProcessingState
\* that the loop keeps updating.
MaxSampleFrame == 8
SampleFps == {10, fps_threshold, initial_fps}

SamplePassUnfinished == sampling.pass.pc \in {"created", "infer", "broadcast"}

\* routes.py / manager.py 127-140, 142-158: a subscriber attaches or the
\* last one leaves
SampleSubscribe(b) ==
    /\ sampling.subscribed # b
    /\ sampling' = [sampling EXCEPT !.subscribed = b]
    /\ UNCHANGED sampling_rest

\* manager.py 282-300: one frame of the loop; fps is the rate measured by
\* _update_fps_and_scaling if the FPS window closed, else the current one.
SampleFrame(fps) ==
    /\ sampling.frame_id < MaxSampleFrame
    /\ LET f == sampling.frame_id + 1 IN
       sampling' = [sampling EXCEPT
                      !.frame_id = f,
                      !.current_fps = fps,
                      !.pass = IF SamplePassUnfinished THEN @
                               ELSE [NoSamplePass EXCEPT !.pc = "created", !.frame = f]]
    /\ UNCHANGED sampling_rest

\* manager.py 486-495 and 497-508: the pass runs up to its first await
_run_inference_pipeline(st) ==
    LET seen == [st.pass EXCEPT !.frame_id = st.frame_id,
                                !.current_fps = st.current_fps]
    IN  IF ~st.subscribed THEN [seen EXCEPT !.pc = "done"]
        ELSE IF st.frame_id % sample_rate(st.current_fps) # 0
             THEN [seen EXCEPT !.pc = "done"]
             ELSE [seen EXCEPT !.pc = "infer", !.detector = 1]

SamplePassStart ==
    /\ sampling.pass.pc = "created"
    /\ sampling' = [sampling EXCEPT !.pass = _run_inference_pipeline(sampling)]
    /\ UNCHANGED sampling_rest

\* manager.py 420-423, 509-520: detection and tracking ended with no
\* detection to send, or raised
SamplePassEmpty ==
    /\ sampling.pass.pc = "infer"
    /\ sampling' = [sampling EXCEPT !.pass.pc = "done"]
    /\ UNCHANGED sampling_rest

\* manager.py 614: the frame id the message is built with
MessageFrameId_Wrapped(st) == st.frame_id % 4

MessageFrameId(st) == st.frame_id

\* manager.py 509-517, 608-617: _send_frame_metadata builds the message and
\* awaits _send_metadata; messages holds the frame ids of the messages of
\* this run in the order they were handed to _send_metadata.
SamplePassBroadcast ==
    /\ sampling.pass.pc = "infer"
    /\ sampling' = [sampling EXCEPT !.pass.pc = "broadcast", !.pass.broadcast = 1,
                                    !.messages = Append(@, MessageFrameId(sampling))]
    /\ UNCHANGED sampling_rest

\* manager.py 522-535: the sends ended
SamplePassSent ==
    /\ sampling.pass.pc = "broadcast"
    /\ sampling' = [sampling EXCEPT !.pass.pc = "done"]
    /\ UNCHANGED sampling_rest

NextSampling ==
    \/ \E b \in BOOLEAN : SampleSubscribe(b)
    \/ \E fps \in SampleFps : SampleFrame(fps)
    \/ SamplePassStart
    \/ SamplePassEmpty
    \/ SamplePassBroadcast
    \/ SamplePassSent

SpecSampling == Init /\ [][NextSampling]_vars

\* ---------------------------------------- _Detector.infer
MaxClock == 3
throttle_ticks == 2      \* 0.10 s

\* detector.py 66 / 71
CacheFresh(d, now) == d._last_det # None /\ (now - d._last_time) < throttle_ticks

\* asyncio.Lock.release(): the lock goes to the longest-waiting caller, which
\* resumes after `async with`; callers arriving meanwhile queue behind it.
ReleaseLock(d) ==
    IF d.waiters = <<>>
    THEN [d EXCEPT !.lock = None]
    ELSE [d EXCEPT !.lock = Head(d.waiters),
                   !.waiters = Tail(d.waiters),
                   !.calls[Head(d.waiters)].pc = "woken"]

\* detector.py 70-77 for the caller that holds the lock: the second cache
\* test, then predict() is handed to the executor.
UnderLock(d, c) ==
    IF CacheFresh(d, d.clock)
    THEN ReleaseLock([d EXCEPT !.calls[c].pc = "returned",
                               !.calls[c].now = d.clock,
                               !.calls[c].result = d._last_det])
    ELSE [d EXCEPT !.calls[c].pc = "predict",
                   !.calls[c].now = d.clock,
                   !.calls[c].exec = d.predicts + 1,
                   !.predicts = @ + 1,
                   !.running = @ \cup {d.predicts + 1}]

\* time passes
Tick ==
    /\ detector.clock < MaxClock
    /\ detector' = [detector EXCEPT !.clock = @ + 1]
    /\ UNCHANGED detector_rest

\* detector.py 65-69: a task calls infer(); up to its first suspension
InferStart(c) ==
    /\ detector.calls[c].pc = "idle"
    /\ LET d == [detector EXCEPT !.calls[c].start = detector.clock] IN
       detector' =
           IF CacheFresh(d, d.clock)
           THEN [d EXCEPT !.calls[c].pc = "returned", !.calls[c].now = d.clock,
                          !.calls[c].result = d._last_det]
           ELSE IF d.lock = None
                THEN UnderLock([d EXCEPT !.lock = c], c)
                ELSE [d EXCEPT !.calls[c].pc = "waiting",
                               !.waiters = Append(@, c)]
    /\ UNCHANGED detector_rest

\* detector.py 69-77: a caller that waited for the lock resumes
LockAcquired(c) ==
    /\ detector.calls[c].pc = "woken"
    /\ detector' = UnderLock(detector, c)
    /\ UNCHANGED detector_rest

\* detector.py 75-80: predict() returned
PredictDone(c) ==
    /\ detector.calls[c].pc = "predict"
    /\ LET call == detector.calls[c] IN
       detector' = ReleaseLock([detector EXCEPT
                       !._last_det = call.exec,
                       !._last_time = call.now,
                       !.running = @ \ {call.exec},
                       !.calls[c].pc = "returned",
                       !.calls[c].result = call.exec])
    /\ UNCHANGED detector_rest

\* detector.py 75-77: predict() raised; `async with` releases the lock
PredictRaise(c) ==
    /\ detector.calls[c].pc = "predict"
    /\ detector' = ReleaseLock([detector EXCEPT
                       !.running = @ \ {detector.calls[c].exec},
                       !.calls[c].pc = "raised"])
    /\ UNCHANGED detector_rest

\* analyzer/tracks.py 110-116: the task that awaits infer() is cancelled.
\* CancelledError is raised at its await; a predict() already running in the
\* executor thread is not interrupted.
CancelCaller(c) ==
    /\ detector.calls[c].pc \in {"waiting", "woken", "predict"}
    /\ LET d == [detector EXCEPT !.calls[c].pc = "cancelled"] IN
       detector' =
           IF detector.calls[c].pc = "waiting"
           THEN [d EXCEPT !.waiters = SelectSeq(@, LAMBDA w : w # c)]
           ELSE ReleaseLock(d)
    /\ UNCHANGED detector_rest

\* a predict() whose caller was cancelled ends in its executor thread
AbandonedPredictEnds(e) ==
    /\ e \in detector.running
    /\ \A c \in Callers : ~(detector.calls[c].pc = "predict" /\ detector.calls[c].exec = e)
    /\ detector' = [detector EXCEPT !.running = @ \ {e}]
    /\ UNCHANGED detector_rest

NextInfer ==
    \/ Tick
    \/ \E c \in Callers : InferStart(c)
    \/ \E c \in Callers : LockAcquired(c)
    \/ \E c \in Callers : PredictDone(c)
    \/ \E c \in Callers : PredictRaise(c)
    \/ \E c \in Callers : CancelCaller(c)
    \/ \E e \in 1..NumCallers : AbandonedPredictEnds(e)

SpecInfer == Init /\ [][NextInfer]_vars

\* ---------------------------------------- backend registries
MaxBackendCalls == 4
BackendNames == {"torch", "Torch", "dummy", "missing", " "}
Factories == {"builds", "raises"}

\* str.strip().lower()
Normalized(name) ==
    CASE name = "Torch" -> "torch"
      [] name = " " -> ""
      [] OTHER -> name

\* depth.py 40-42
available_depth_backends(b) == DOMAIN b._backend_registry

UnsupportedDepthBackend_NameOnly(backend_name, known) == {backend_name}

\* depth.py 53-57: the names the ValueError's message contains
UnsupportedDepthBackend(backend_name, known) ==
    {backend_name} \cup (IF known = {} THEN {"none"} ELSE known)

\* detector.py 42-44
UnsupportedDetectorBackend(backend_name) == {backend_name, "torch", "onnx"}

Raised(b, op, error, message) ==
    [b EXCEPT !.last = [op |-> op, resolved |-> TRUE, error |-> error,
                        message |-> message, instance |-> None]]

\* a factory returned: a new instance
Built(b) == b.instances + 1

\* depth.py 45-58: the outcome of the default factory: "ValueError", the
\* outcome of the registered factory otherwise
DefaultFactoryOutcome(b) ==
    IF b.DEPTH_BACKEND \in DOMAIN b._backend_registry
    THEN b._backend_registry[b.DEPTH_BACKEND]
    ELSE "ValueError"

FactoryOutcome(b) ==
    IF b._depth_estimator_factory = "default" THEN DefaultFactoryOutcome(b)
    ELSE b._depth_estimator_factory

\* depth.py 71-76
AfterGetDepthEstimator(b) ==
    IF b._depth_estimator # None
    THEN [b EXCEPT !.last = [op |-> "get_depth_estimator", resolved |-> FALSE,
                             error |-> "none", message |-> {},
                             instance |-> b._depth_estimator],
                   !.epoch.gets = @ + 1,
                   !.epoch.returned = @ \cup {b._depth_estimator}]
    ELSE IF FactoryOutcome(b) = "ValueError"
         THEN Raised(b, "get_depth_estimator", "ValueError",
                     UnsupportedDepthBackend(b.DEPTH_BACKEND, available_depth_backends(b)))
    ELSE IF FactoryOutcome(b) = "raises"
         THEN Raised(b, "get_depth_estimator", "RuntimeError", {})
    ELSE [b EXCEPT !._depth_estimator = Built(b),
                   !.instances = Built(b),
                   !.last = [op |-> "get_depth_estimator", resolved |-> TRUE,
                             error |-> "none", message |-> {}, instance |-> Built(b)],
                   !.epoch.gets = @ + 1,
                   !.epoch.built = @ + 1,
                   !.epoch.returned = @ \cup {Built(b)}]

AfterRegisterDepthBackend_Rebuild(b, name, factory) ==
    IF Normalized(name) = ""
    THEN [Raised(b, "register_depth_backend", "ValueError", {}) EXCEPT
             !.last.resolved = FALSE]
    ELSE [b EXCEPT !._backend_registry =
                       [n \in DOMAIN @ \cup {Normalized(name)} |->
                           IF n = Normalized(name) THEN factory ELSE @[n]],
                   !._depth_estimator = None,
                   !.epoch.backends_registered = 1,
                   !.last = [NoResolve EXCEPT !.op = "register_depth_backend"]]

\* depth.py 32-37
AfterRegisterDepthBackend(b, name, factory) ==
    IF Normalized(name) = ""
    THEN [Raised(b, "register_depth_backend", "ValueError", {}) EXCEPT
             !.last.resolved = FALSE]
    ELSE [b EXCEPT !._backend_registry =
                       [n \in DOMAIN @ \cup {Normalized(name)} |->
                           IF n = Normalized(name) THEN factory ELSE @[n]],
                   !.epoch.backends_registered = 1,
                   !.last = [NoResolve EXCEPT !.op = "register_depth_backend"]]

\* depth.py 64-68
AfterRegisterDepthEstimator(b, factory) ==
    [b EXCEPT !._depth_estimator_factory = factory,
              !._depth_estimator = None,
              !.epoch = NoEpoch,
              !.last = [NoResolve EXCEPT !.op = "register_depth_estimator"]]

\* detector.py 86-91 with 35-48; `engine` is how the engine's constructor
\* ends ("builds", or "raises" for a missing model file)
AfterGetDetector(b, engine) ==
    LET backend_name == Normalized(b.DETECTOR_BACKEND) IN
    IF b._detector_instance # None
    THEN [b EXCEPT !.last = [op |-> "_get_detector", resolved |-> FALSE,
                             error |-> "none", message |-> {},
                             instance |-> b._detector_instance]]
    ELSE IF backend_name \notin {"onnx", "torch"}
         THEN Raised(b, "_get_detector", "ValueError",
                     UnsupportedDetectorBackend(backend_name))
    ELSE IF engine = "raises"
         THEN Raised(b, "_get_detector", "FileNotFoundError", {})
    ELSE [b EXCEPT !._detector_instance = Built(b),
                   !.instances = Built(b),
                   !.last = [op |-> "_get_detector", resolved |-> TRUE,
                             error |-> "none", message |-> {}, instance |-> Built(b)]]

Counted(after) == [after EXCEPT !.calls = @ + 1]

get_depth_estimator ==
    /\ backends.calls < MaxBackendCalls
    /\ backends' = Counted(AfterGetDepthEstimator(backends))
    /\ UNCHANGED backends_rest

register_depth_backend(name, factory) ==
    /\ backends.calls < MaxBackendCalls
    /\ backends' = Counted(AfterRegisterDepthBackend(backends, name, factory))
    /\ UNCHANGED backends_rest

register_depth_estimator(factory) ==
    /\ backends.calls < MaxBackendCalls
    /\ backends' = Counted(AfterRegisterDepthEstimator(backends, factory))
    /\ UNCHANGED backends_rest

_get_detector(engine) ==
    /\ backends.calls < MaxBackendCalls
    /\ backends' = Counted(AfterGetDetector(backends, engine))
    /\ UNCHANGED backends_rest

\* the deployment sets DEPTH_BACKEND and DETECTOR_BACKEND before the first call
Configure(depth_name, detector_name) ==
    /\ backends.calls = 0
    /\ backends.last.op = "none"
    /\ backends' = [backends EXCEPT !.DEPTH_BACKEND = depth_name,
                                    !.DETECTOR_BACKEND = detector_name,
                                    !.last.op = "configure"]
    /\ UNCHANGED backends_rest

NextBackends ==
    \/ \E d \in BackendNames \ {" "}, e \in BackendNames \ {" "} : Configure(d, e)
    \/ get_depth_estimator
    \/ \E n \in BackendNames \ {"missing"}, f \in Factories : register_depth_backend(n, f)
    \/ \E f \in Factories \cup {"default"} : register_depth_estimator(f)
    \/ \E e \in Factories : _get_detector(e)

SpecBackends == Init /\ [][NextBackends]_vars

\* ---------------------------------------- _SharedCamera
MaxCameraCalls == 6

\* camera.py 37-49 with open_camera() returning a capture.  No await inside:
\* the reader task is created and starts at a later suspension.
CameraAcquired(cam) ==
    IF cam._cap = None
    THEN [cam EXCEPT !.devices = Append(@, "open"),
                     !._cap = Len(cam.devices) + 1,
                     !._running = TRUE,
                     !._reader_task = "pending",
                     !._refcount = 1,
                     !.last = [op |-> "acquire", raised |-> "none"]]
    ELSE [cam EXCEPT !._refcount = @ + 1,
                     !.last = [op |-> "acquire", raised |-> "none"]]

\* camera.py 44-47: open_camera() raised
CameraAcquireFailed(cam) ==
    [cam EXCEPT !._refcount = Larger(0, @ - 1),
                !.last = [op |-> "acquire", raised |-> "RuntimeError"]]

\* camera.py 66-71
CameraTornDown(cam) ==
    [cam EXCEPT !.devices = IF cam._cap # None
                            THEN [@ EXCEPT ![cam._cap] = "released"] ELSE @,
                !._cap = None,
                !._reader_task = "none",
                !._refcount = 0,
                !.pc = "idle",
                !.last = [op |-> "release", raised |-> "none"]]

\* camera.py 58-65: release() up to the await of the reader task.  Awaiting
\* a task that is already cancelled raises CancelledError at once, which
\* contextlib.suppress(Exception) lets through.
CameraReleaseBegun(cam) ==
    LET c == [cam EXCEPT !._refcount = Larger(0, @ - 1)] IN
    IF c._refcount > 0
    THEN [c EXCEPT !.last = [op |-> "release", raised |-> "none"]]
    ELSE IF c._reader_task = "none"
         THEN CameraTornDown([c EXCEPT !._running = FALSE])
    ELSE IF c._reader_task = "cancelled"
         THEN [c EXCEPT !._running = FALSE,
                        !.last = [op |-> "release", raised |-> "CancelledError"]]
    ELSE [c EXCEPT !._running = FALSE, !.pc = "await_reader"]

acquire(ok) ==
    /\ camera.pc = "idle"
    /\ camera.calls < MaxCameraCalls
    /\ ok \/ camera._cap = None
    /\ camera' = [(IF ok THEN CameraAcquired(camera) ELSE CameraAcquireFailed(camera))
                     EXCEPT !.calls = @ + 1]
    /\ UNCHANGED camera_rest

release ==
    /\ camera.pc = "idle"
    /\ camera.calls < MaxCameraCalls
    /\ camera' = [CameraReleaseBegun(camera) EXCEPT !.calls = @ + 1]
    /\ UNCHANGED camera_rest

\* camera.py 73-83: the reader task runs its first step
ReaderStarts ==
    /\ camera._reader_task = "pending"
    /\ camera.pc = "idle"
    /\ camera' = [camera EXCEPT !._reader_task = "running"]
    /\ UNCHANGED camera_rest

\* camera.py 88-89 and 64-71: the cancelled reader leaves its loop and
\* release() goes on to close the capture
ReaderStopped ==
    /\ camera.pc = "await_reader"
    /\ camera._reader_task = "running"
    /\ camera' = CameraTornDown(camera)
    /\ UNCHANGED camera_rest

\* camera.py 63-65: the reader was cancelled before its first step, so it
\* ends cancelled and the await in release() raises CancelledError
ReaderCancelledUnstarted ==
    /\ camera.pc = "await_reader"
    /\ camera._reader_task = "pending"
    /\ camera' = [camera EXCEPT !._reader_task = "cancelled",
                                !.pc = "idle",
                                !.last = [op |-> "release", raised |-> "CancelledError"]]
    /\ UNCHANGED camera_rest

NextCamera ==
    \/ \E ok \in BOOLEAN : acquire(ok)
    \/ release
    \/ ReaderStarts
    \/ ReaderStopped
    \/ ReaderCancelledUnstarted

SpecCamera == Init /\ [][NextCamera]_vars

\* ---------------------------------------- metadata message
MaxDetections == 2
FrameSizes == {<<4, 4>>, <<8, 4>>}

\* pixel boxes <<x1, y1, x2, y2>>: inside the frame, reaching past it,
\* starting left of it, of zero width, of zero height
MetaBoxes == {<<1, 1, 3, 4>>, <<0, 0, 4, 4>>, <<2, 2, 9, 9>>, <<-1, 0, 2, 2>>,
              <<2, 1, 2, 3>>, <<1, 3, 4, 3>>, <<5, 1, 7, 2>>}

MetaDetectionLists == UNION {[1..n -> MetaBoxes] : n \in 0..MaxDetections}

Clamp01(x) == Larger(0, Smaller(Scale, x))

\* common/utils/detection.py normalize_bbox_coordinates: x / width,
\* y / height, w / width, h / height, each clamped to [0, 1]; a box without
\* area gives (0, 0, 0, 0).
normalize_bbox_coordinates(x1, y1, x2, y2, width, height) ==
    IF x2 <= x1 \/ y2 <= y1
    THEN <<0, 0, 0, 0>>
    ELSE <<Clamp01(FromRatio(x1, width)), Clamp01(FromRatio(y1, height)),
           Clamp01(FromRatio(x2 - x1, width)), Clamp01(FromRatio(y2 - y1, height))>>

\* manager.py 565-588: the payload entry of the detection at position i
DetectionPayload(detections, i, w, h) ==
    LET det == detections[i]
        norm == normalize_bbox_coordinates(det[1], det[2], det[3], det[4], w, h)
    IN  [source |-> i,
         box |-> [x |-> norm[1], y |-> norm[2], width |-> norm[3], height |-> norm[4]]]

\* manager.py 564-589: one entry is appended for every detection
det_payload(detections, w, h) ==
    [i \in 1..Len(detections) |-> DetectionPayload(detections, i, w, h)]

\* manager.py 537-596
_build_metadata_message(size, detections, frame_id, current_fps) ==
    /\ ~meta.built
    /\ meta' = [built |-> TRUE, w |-> size[1], h |-> size[2],
                detections |-> detections,
                det_payload |-> det_payload(detections, size[1], size[2]),
                frame_id |-> frame_id,
                fps |-> IF frame_id % 30 = 0 THEN current_fps ELSE None]
    /\ UNCHANGED meta_rest

NextMeta ==
    \E size \in FrameSizes, dets \in MetaDetectionLists, frame_id \in {29, 30} :
        _build_metadata_message(size, dets, frame_id, initial_fps)

SpecMeta == Init /\ [][NextMeta]_vars

\* ---------------------------------------- depth estimator
MaxDepthCalls == 3
region_size == 5         \* config.py 15: REGION_SIZE
update_freq == 2         \* config.py 21: UPDATE_FREQ
scale_factor == FromInt(432)

\* Depth maps (inverse depth per pixel) of DepthW x DepthH pixels: one that
\* grows from left to right, one that is flat.  Inverse depths are at
\* least 1, so the 1e-6 floor of depth_utils.py is never the larger value.
DepthW == 8
DepthH == 2
DepthPixels == (0..(DepthW - 1)) \X (0..(DepthH - 1))
DepthMaps == <<[p \in DepthPixels |-> 1 + p[1] + p[2]], [p \in DepthPixels |-> 4]>>
depth_floor == 1         \* the smallest positive float stands for 1e-6

\* Detections <<x1, y1, x2, y2, has_mask, mask>>: has_mask is FALSE for
\* binary_mask = None; otherwise mask is the set of the True pixels of a
\* mask of the size of the depth map.
DepthDetections ==
    {<<0, 0, 2, 2, FALSE, {}>>, <<5, 0, 8, 2, FALSE, {}>>,
     <<2, 0, 5, 1, TRUE, {<<6, 0>>, <<7, 0>>}>>, <<0, 0, 8, 2, TRUE, {}>>}

DepthDetectionLists == UNION {[1..n -> DepthDetections] : n \in 0..2}

RECURSIVE DepthSum(_, _)
DepthSum(depth_map, pixels) ==
    IF pixels = {} THEN 0
    ELSE LET p == CHOOSE q \in pixels : TRUE
         IN  depth_map[p] + DepthSum(depth_map, pixels \ {p})

\* The k-th smallest inverse depth among the pixels.
KthSmallest(depth_map, pixels, k) ==
    CHOOSE v \in {depth_map[p] : p \in pixels} :
        /\ Cardinality({p \in pixels : depth_map[p] < v}) < k
        /\ Cardinality({p \in pixels : depth_map[p] <= v}) >= k

\* np.median: the middle value, or the mean of the two middle values
Median(depth_map, pixels) ==
    LET n == Cardinality(pixels)
    IN  IF n % 2 = 1 THEN FromInt(KthSmallest(depth_map, pixels, (n + 1) \div 2))
        ELSE FromRatio(KthSmallest(depth_map, pixels, n \div 2)
                       + KthSmallest(depth_map, pixels, n \div 2 + 1), 2)

\* depth_utils.py 62-96
_estimate_depth_from_mask(depth_map, det) ==
    IF det[6] = {} THEN depth_floor
    ELSE Larger(Median(depth_map, det[6]), depth_floor)

\* depth_utils.py 99-122: the mean over a region around the centre of the box
_estimate_depth_from_bbox(depth_map, det, w, h) ==
    LET cx == (det[1] + det[3]) \div 2
        cy == (det[2] + det[4]) \div 2
        half_size == region_size \div 2
        region == {p \in DepthPixels :
                     /\ Larger(cx - half_size, 0) <= p[1]
                     /\ p[1] < Smaller(cx + half_size + 1, w)
                     /\ Larger(cy - half_size, 0) <= p[2]
                     /\ p[2] < Smaller(cy + half_size + 1, h)}
    IN  Larger(FromRatio(DepthSum(depth_map, region), Cardinality(region)), depth_floor)

\* depth_utils.py 49-57: scale_factor / depth_value for one detection
DistanceOf(depth_map, det) ==
    LET depth_value == IF det[5]
                       THEN _estimate_depth_from_mask(depth_map, det)
                       ELSE _estimate_depth_from_bbox(depth_map, det, DepthW, DepthH)
    IN  FlRat(scale_factor * Scale, depth_value)

\* depth_utils.py 32-59
calculate_distances(depth_map, dets) ==
    [i \in 1..Len(dets) |-> DistanceOf(depth_map, dets[i])]

\* depth.py 109-113: the call is answered from last_depths
AnsweredFromCache(d, dets) ==
    (d.update_id + 1) % update_freq # 0 /\ Len(d.last_depths) = Len(dets)

\* depth.py 105-119
AfterEstimate(d, frame, dets) ==
    LET cached == AnsweredFromCache(d, dets)
        distances == IF cached THEN d.last_depths
                     ELSE calculate_distances(DepthMaps[frame], dets)
    IN  [update_id |-> d.update_id + 1, last_depths |-> distances,
         calls |-> d.calls + 1,
         last |-> [frame |-> frame, dets |-> dets, returned |-> distances,
                   cached |-> cached]]

estimate_distance_m(frame, dets) ==
    /\ depth.calls < MaxDepthCalls
    /\ depth' = AfterEstimate(depth, frame, dets)
    /\ UNCHANGED depth_rest

NextDepth ==
    \E frame \in 1..Len(DepthMaps), dets \in DepthDetectionLists :
        estimate_distance_m(frame, dets)

SpecDepth == Init /\ [][NextDepth]_vars

\* ================================================================ claims
Unfinished == {p \in passes : p.pc # "done"}
Running(t) == tasks[t].status = "running"

\* C1: whenever active_connections is empty and no connect()/disconnect()
\* call is in progress, no frame-processing task is running, no WebcamSession
\* is held and the tracker table is empty.
C1_NotRunningUnobserved ==
    (active_connections = {} /\ NoCallInProgress) =>
        /\ \A t \in RunIds : ~Running(t)
        /\ _webcam_session = None
        /\ \A s \in SessionIds : sessions[s] # "open"
        /\ _tracked_objects = {}

\* C2: at most one inference pass is unfinished at any moment; a frame
\* accepted while a pass is unfinished starts no pass, and a pass is only
\* ever started for the frame accepted in that same step (no frame is kept
\* for later submission).
C2_AtMostOneUnfinished == Cardinality(Unfinished) <= 1

C2_DroppedNotQueued ==
    /\ \A t \in RunIds : (RecvFrame(t) /\ Unfinished # {}) => passes' = passes
    /\ \A p \in passes' :
         (\A q \in passes : PassId(q) # PassId(p))
            => /\ RecvFrame(p.run)
               /\ p.frame = tasks[p.run].frame_id + 1

C2_OneInferenceInFlight == []C2_AtMostOneUnfinished /\ [][C2_DroppedNotQueued]_vars

\* C2 witness: a frame was accepted and discarded while a pass was unfinished.
C2_Witness ==
    \E p \in Unfinished : Running(p.run) /\ tasks[p.run].frame_id > p.frame

\* C3: once _stop_processing() has returned, a pass dispatched before that
\* stop neither mutates the tracker nor delivers a message to an attached
\* subscriber.
C3_NoEffectAfterStop ==
    [][\A p \in passes : p.stale =>
          /\ ~PassTrack(p)
          /\ \A w \in active_connections : ~PassSend(p, w, TRUE)]_vars

\* C4: the frame id a pass hands to the tracker and writes into its
\* MetadataMessage is the id of the frame the pass was dispatched for.
C4_FrameIdOfDispatch ==
    \A p \in passes :
        (p.pc = "send" \/ p.outcome = "sent") => p.msg_frame = p.frame

\* C5: when the reconnect attempt made at the error ceiling raises,
\* _process_frames terminates.
C5_ReconnectFailureEndsLoop ==
    [][\A t \in RunIds : ReconnectFail(t) => tasks'[t].status = "done"]_vars

\* C6: the timeout that brings the count of consecutive timeouts to
\* max_consecutive_errors ends the receive loop.
C6_TimeoutCeilingEndsLoop ==
    [][\A t \in RunIds :
          (RecvTimeout(t) /\ tasks'[t].fails >= max_consecutive_errors)
             => tasks'[t].status = "done"]_vars

\* C7: consecutive_errors equals the number of receive timeouts/failures since
\* the last successful receive or reconnect, and a timeout below the ceiling
\* goes straight to the next loop test: with a subscriber attached the loop
\* receives again with frame_id unchanged and the counter one higher, without
\* one the task ends.
C7_CounterExact ==
    \A t \in RunIds : tasks[t].consecutive_errors = tasks[t].fails

C7_TimeoutSkips ==
    \A t \in RunIds :
        (RecvTimeout(t) /\ tasks[t].fails + 1 < max_consecutive_errors)
           => IF active_connections # {}
              THEN /\ tasks'[t].status = "running" /\ tasks'[t].pc = "recv"
                   /\ tasks'[t].frame_id = tasks[t].frame_id
                   /\ tasks'[t].consecutive_errors = tasks[t].consecutive_errors + 1
              ELSE tasks'[t].status = "done"

C7_ConsecutiveErrors == []C7_CounterExact /\ [][C7_TimeoutSkips]_vars

\* C7 witness: failures counted after a frame was accepted, loop still receiving.
C7_Witness ==
    \E t \in RunIds :
        /\ Running(t) /\ tasks[t].pc = "recv"
        /\ tasks[t].frame_id >= 1
        /\ tasks[t].consecutive_errors = max_consecutive_errors - 1

\* C8: an exception raised inside an inference pass ends that pass only: no
\* _process_frames task changes, no subscriber is removed, no handler is
\* disturbed, and the pass is finished so that the next frame is dispatched.
RaisedIn(p) ==
    /\ p.outcome # "error"
    /\ \E q \in passes' : PassId(q) = PassId(p) /\ q.outcome = "error"

C8_ErrorConfined ==
    \A p \in passes : RaisedIn(p) =>
        /\ \A t \in RunIds : Running(t) => tasks'[t] = tasks[t]
        /\ \A t \in RunIds : Running(t) <=> tasks'[t].status = "running"
        /\ active_connections' = active_connections
        /\ ws_pc' = ws_pc
        /\ \A q \in passes' : PassId(q) = PassId(p) => q.pc = "done"
        /\ (PassId(p) = _inference_task) => ~FrameDropped'

C8_InferenceErrorIsolated == [][C8_ErrorConfined]_vars

\* C8 witness: a pass ended in the exception handler, its run took a later
\* frame and is receiving again, the subscribers are still attached.
C8_Witness ==
    \E p \in passes :
        /\ p.outcome = "error"
        /\ Running(p.run) /\ tasks[p.run].pc = "recv"
        /\ tasks[p.run].frame_id > p.frame
        /\ active_connections = WS

\* C9: in one broadcast over the snapshot S every subscriber whose send
\* succeeds gets the message exactly once, the subscribers removed at the end
\* are exactly those of S whose send raised, and the pass ends normally.
C9_Delivery ==
    \A p \in passes :
        (p.pc = "send" \/ p.outcome = "sent") =>
            /\ p.dead \subseteq p.S /\ p.todo \subseteq p.S
            /\ p.dead \cap p.todo = {}
            /\ \A w \in WS :
                  p.cnt[w] = IF w \in p.S \ (p.todo \cup p.dead) THEN 1 ELSE 0

C9_Removal ==
    \A p \in passes : \A w \in WS : \A ok \in BOOLEAN :
        (PassSend(p, w, ok) /\ p.todo = {w}) =>
            \E q \in passes' :
                /\ PassId(q) = PassId(p)
                /\ q.pc = "done" /\ q.outcome = "sent"
                /\ q.S = p.S
                /\ active_connections' = active_connections \ q.dead
                /\ q.dead = p.dead \cup (IF ok THEN {} ELSE {w})

C9_BroadcastIsolation == []C9_Delivery /\ [][C9_Removal]_vars

\* C9 witness: a finished broadcast over two subscribers, one send raised and
\* the other subscriber received the message.
C9_Witness ==
    \E p \in passes :
        /\ p.outcome = "sent"
        /\ Cardinality(p.S) = 2
        /\ Cardinality(p.dead) = 1
        /\ \E w \in p.S \ p.dead : p.cnt[w] = 1 /\ w \in active_connections
        /\ p.dead \cap active_connections = {}

\* C10: every WebcamSession that holds a connection is the one referenced by
\* _webcam_session: none is overwritten or dropped while still open.
C10_NoSessionLeak ==
    \A s \in SessionIds : sessions[s] = "open" => s = _webcam_session

\* C11: a connect() made while the pipeline runs or starts creates no further
\* processing task: at every moment at most one _process_frames task is alive,
\* whatever the interleaving of connect() and disconnect() calls.
C11_SingleProcessingTask ==
    Cardinality({t \in RunIds : Running(t)}) <= 1

\* A call was made on the TrackingManager in this step.
Called(op) == tm_calls' = tm_calls + 1 /\ tm_last'.op = op

C13_CountNeverDecreases ==
    [][\A k \in DOMAIN tm_tracked_objects \cap DOMAIN tm_tracked_objects' :
           /\ tm_tracked_objects'[k].detection_count
                  >= tm_tracked_objects[k].detection_count
           /\ is_active(tm_tracked_objects[k], detection_threshold)
                  => is_active(tm_tracked_objects'[k], detection_threshold)]_vars

\* An Active track that was matched again.
C13_Witness ==
    /\ tm_last.op = "match"
    /\ \E k \in Range(tm_last.assignments) :
           /\ k \in DOMAIN tm_tracked_objects
           /\ tm_tracked_objects[k].detection_count > detection_threshold

\* C14: _remove_stale_tracks(frame_id) removes exactly the tracks with
\* frame_id - last_seen_frame > max_frames_without_detection or with
\* last_seen_frame unset, and leaves every other track unchanged.
C14_RemovesExactlyStale ==
    [][Called("remove_stale") =>
           /\ DOMAIN tm_tracked_objects' \subseteq DOMAIN tm_tracked_objects
           /\ \A k \in DOMAIN tm_tracked_objects :
                  LET track == tm_tracked_objects[k]
                  IN  IF \/ track.last_seen_frame = None
                         \/ tm_last'.frame_id - track.last_seen_frame
                                > max_frames_without_detection
                      THEN k \notin DOMAIN tm_tracked_objects'
                      ELSE /\ k \in DOMAIN tm_tracked_objects'
                           /\ tm_tracked_objects'[k] = track]_vars

\* After _remove_stale_tracks: a track last matched exactly
\* max_frames_without_detection frames ago is in the table and an older one
\* is gone.
C14_Witness ==
    /\ tm_last.op = "remove_stale"
    /\ \E k \in DOMAIN tm_tracked_objects :
           tm_last.frame_id - tm_tracked_objects[k].last_seen_frame
               = max_frames_without_detection
    /\ \E k \in tm_assigned.epoch : k \notin DOMAIN tm_tracked_objects


\* C15: stale-track pruning runs for every frame the receive loop processes,
\* also when the pass for it is skipped by the sample-rate check or the
\* detector returns nothing: a pass that ran to its end has called
\* _remove_stale_tracks.
C15_PrunedEveryFrame ==
    \A p \in passes :
        (p.pc = "done" /\ p.outcome \in {"skipped", "empty", "nodets", "sent"})
            => p.pruned

\* C17: after the last subscriber left and a new one attached, the tracker
\* holds no track built from a frame of the previous session and its first
\* id is 0: once the new run exists, a pass that was dispatched before the
\* teardown (and its clear()) does not write into the tracker.
C17_FreshTracker ==
    [][\A p \in passes :
           (/\ p.stale
            /\ _processing_task # None
            /\ Running(_processing_task)
            /\ p.run # _processing_task
            /\ PassTrack(p))
               => UNCHANGED <<_tracked_objects, _next_track_id>>]_vars


\* C16 as stated: over any sequence of match, _remove_stale_tracks and
\* clear() calls, no track id is ever given to two different tracks.
C16_NeverReused ==
    [][tm_calls' = tm_calls + 1
           => tm_last'.created \cap tm_assigned.ever = {}]_vars

\* C16, amended: between two clear() calls (or construction and the first
\* clear()) no track id is given to two different tracks, and each new id is
\* larger than every id handed out since then, removed tracks included.
C16_UniqueBetweenClears ==
    [][tm_calls' = tm_calls + 1
           => /\ \A k \in tm_last'.created :
                     \A j \in tm_assigned.epoch : k > j
              /\ \A i, j \in DOMAIN tm_last'.assignments :
                     (i # j /\ tm_last'.assignments[i] \in tm_last'.created)
                         => tm_last'.assignments[i] # tm_last'.assignments[j]]_vars

\* A call created a track while an id handed out since the last clear() had
\* already left the table.
C16_Witness ==
    /\ tm_last.created # {}
    /\ \E j \in tm_assigned.epoch :
           /\ j \notin DOMAIN tm_tracked_objects
           /\ \A k \in tm_last.created : j < k


\* The tracks a detection may be appended to according to C18, given the
\* table before the call and the tracks claimed earlier in the call.
Matchable(objs, det, claimed) ==
    {k \in DOMAIN objs :
        /\ objs[k].cls_id = det.cls_id
        /\ k \notin claimed
        /\ LET iou == calculate_iou(objs[k].history[Len(objs[k].history)].box, det.box)
           IN  iou[1] * 10 >= iou_threshold * iou[2]}

\* C18: match_detections_to_tracks appends a detection only to a track of the
\* same class, not claimed earlier in the call, whose latest history entry
\* has IoU >= iou_threshold with it; it does so whenever such a track exists,
\* and otherwise creates exactly one new track with a fresh id.
C18_MatchOrCreate ==
    [][Called("match") =>
         LET a == tm_last'.assignments
             d == tm_last'.detections
             unmatched == {i \in DOMAIN a :
                             Matchable(tm_tracked_objects, d[i],
                                       {a[j] : j \in 1..(i - 1)}) = {}}
         IN  /\ Len(a) = Len(d)
             /\ \A i \in DOMAIN a :
                    /\ IF i \in unmatched
                       THEN /\ a[i] \notin DOMAIN tm_tracked_objects
                            /\ a[i] \notin {a[j] : j \in 1..(i - 1)}
                       ELSE a[i] \in Matchable(tm_tracked_objects, d[i],
                                               {a[j] : j \in 1..(i - 1)})
                    /\ LET h == tm_tracked_objects'[a[i]].history
                       IN  h[Len(h)] = TrackedDetection(d[i], tm_last'.frame_id)
             /\ DOMAIN tm_tracked_objects'
                    = DOMAIN tm_tracked_objects \cup {a[i] : i \in unmatched}
             /\ Cardinality(DOMAIN tm_tracked_objects')
                    = Cardinality(DOMAIN tm_tracked_objects) + Cardinality(unmatched)]_vars

\* A call with the same detection twice: the first was appended to an
\* existing track, the second found that track claimed and got a new one.
C18_Witness ==
    /\ tm_last.op = "match"
    /\ Len(tm_last.detections) = 2
    /\ tm_last.detections[1] = tm_last.detections[2]
    /\ tm_last.assignments[1] \notin tm_last.created
    /\ tm_last.assignments[2] \in tm_last.created

\* The call made in this step repeats the previous call of
\* match_detections_to_tracks with the same arguments.
RepeatedMatch ==
    /\ Called("match")
    /\ tm_last.op = "match"
    /\ tm_last'.detections = tm_last.detections
    /\ tm_last'.frame_id = tm_last.frame_id

C20_BoundedHistory ==
    /\ [](\A k \in DOMAIN tm_tracked_objects :
              /\ Len(tm_tracked_objects[k].history) >= 1
              /\ Len(tm_tracked_objects[k].history) <= max_history_size)
    /\ [][Called("match") =>
              \A i \in DOMAIN tm_last'.assignments :
                  LET k == tm_last'.assignments[i]
                      e == TrackedDetection(tm_last'.detections[i], tm_last'.frame_id)
                      new == tm_tracked_objects'[k].history
                  IN  k \in DOMAIN tm_tracked_objects =>
                          LET old == tm_tracked_objects[k].history
                          IN  IF Len(old) = max_history_size
                              THEN new = Tail(old) \o <<e>>
                              ELSE new = old \o <<e>>]_vars

\* A track that has received more detections than its history holds.
C20_Witness ==
    /\ tm_last.op = "match"
    /\ \E k \in Range(tm_last.assignments) :
           /\ Len(tm_tracked_objects[k].history) = max_history_size
           /\ tm_tracked_objects[k].detection_count > max_history_size


\* The last get_interpolated call was made on a track whose two entries have
\* frame ids f1 < f2.
InterpolatedCall ==
    /\ Len(interp.history) = 2
    /\ interp.history[1].frame_id < interp.history[2].frame_id

\* C21: for entries with frame ids f1 < f2, get_interpolated returns the
\* earlier entry's box and distance at target frame f1, the later entry's at
\* target frame f2, and at the midpoint frame their mean, the box coordinates
\* rounded to a nearest integer.
C21_EndpointsExact ==
    InterpolatedCall =>
        LET e1 == interp.history[1]
            e2 == interp.history[2]
            r == interp.result[1]
            f == interp.target_frame_id
        IN  /\ f = e1.frame_id => (r.box = e1.box /\ r.distance = e1.distance)
            /\ f = e2.frame_id => (r.box = e2.box /\ r.distance = e2.distance)
            /\ 2 * f = e1.frame_id + e2.frame_id =>
                   /\ \A i \in 1..4 : Abs(2 * r.box[i] - (e1.box[i] + e2.box[i])) <= 1
                   /\ r.distance = FlRat(e1.distance + e2.distance, 2)

\* the interpolation factor get_interpolated computes for a target frame
FactorAt(target) ==
    calculate_interpolation_factor(interp.history[1].frame_id,
                                   interp.history[2].frame_id, target)

C23_ScaleWithinBounds ==
    scaling.started =>
        (MIN_SCALE <= scaling.target_scale /\ scaling.target_scale <= MAX_SCALE)

\* C24: a pass invokes the detector if and only if, when it starts, a
\* subscriber is attached and frame_id % sample_rate = 0 with sample_rate 2
\* for current_fps < fps_threshold and 4 otherwise; a pass that does not
\* invoke the detector does not broadcast either.
C24_SampledDetection ==
    [][/\ SamplePassStart =>
            (sampling'.pass.detector = 1 <=>
                /\ sampling.subscribed
                /\ sampling.frame_id %
                       (IF sampling.current_fps < fps_threshold THEN 2 ELSE 4) = 0)
       /\ sampling'.pass.detector = 0 => sampling'.pass.broadcast = 0
       /\ sampling'.pass.pc = "created" => sampling'.pass.detector = 0]_vars

\* a pass at the slow cadence has run the detector and broadcast on frame 4
C24_Witness ==
    /\ sampling.pass.pc = "done"
    /\ sampling.pass.detector = 1
    /\ sampling.pass.broadcast = 1
    /\ sampling.pass.frame_id = 4
    /\ sampling.pass.current_fps = fps_threshold

\* C25: when a call has run predict(), every call that started within the
\* 100 ms after that call started returns the same result without running
\* predict() again, also when it had to wait for the lock.
C25_OneInferencePerWindow ==
    \A c, d \in Callers :
        LET first == detector.calls[c]
            other == detector.calls[d]
        IN  (/\ c # d
             /\ first.pc = "returned" /\ first.exec # 0
             /\ other.pc \in {"returned", "predict"}
             /\ first.start <= other.start
             /\ other.start < first.start + throttle_ticks)
            => (other.exec = 0 /\ other.result = first.result)

\* C26: never two predict() executions of the detector in progress together.
C26_PredictSerialised == Cardinality(detector.running) <= 1

\* C27: resolving a depth or detector backend whose configured name is not
\* registered raises ValueError, the message names the unknown backend and
\* the registered ones, and no instance is memoized.
C27_UnknownBackendFails ==
    LET last == backends.last IN
    /\ (/\ last.op = "get_depth_estimator" /\ last.resolved
        /\ backends._depth_estimator_factory = "default"
        /\ backends.DEPTH_BACKEND \notin DOMAIN backends._backend_registry)
       => /\ last.error = "ValueError"
          /\ backends.DEPTH_BACKEND \in last.message
          /\ DOMAIN backends._backend_registry \subseteq last.message
          /\ backends._depth_estimator = None
    /\ (/\ last.op = "_get_detector" /\ last.resolved
        /\ Normalized(backends.DETECTOR_BACKEND) \notin {"torch", "onnx"})
       => /\ last.error = "ValueError"
          /\ Normalized(backends.DETECTOR_BACKEND) \in last.message
          /\ {"torch", "onnx"} \subseteq last.message
          /\ backends._detector_instance = None

\* an unknown depth backend was resolved with a backend registered at run time
C27_Witness ==
    /\ backends.last.op = "get_depth_estimator"
    /\ backends.last.error = "ValueError"
    /\ backends.DEPTH_BACKEND = "missing"
    /\ "dummy" \in DOMAIN backends._backend_registry

\* C28: between two register_depth_estimator() calls the factory returns an
\* instance at most once and every get_depth_estimator() returns that
\* instance, whatever register_depth_backend() calls are made in between.
C28_BuiltOnce ==
    /\ backends.epoch.built <= 1
    /\ Cardinality(backends.epoch.returned) <= 1
    /\ backends.epoch.gets > 0 => backends.epoch.returned = {backends._depth_estimator}

\* the memoized estimator was returned again after a backend was registered
C28_Witness ==
    /\ backends.last.op = "get_depth_estimator"
    /\ ~backends.last.resolved
    /\ backends.epoch.gets >= 2
    /\ backends.epoch.backends_registered = 1

DeviceOpen == \E i \in 1..Len(camera.devices) : camera.devices[i] = "open"

\* C29: after any sequence of acquire() and release() calls _refcount is not
\* negative and a capture device is open exactly when _refcount > 0.
C29_OpenIffReferenced ==
    camera.pc = "idle" =>
        /\ camera._refcount >= 0
        /\ DeviceOpen <=> camera._refcount > 0

ZeroArea(det) == det[3] = det[1] \/ det[4] = det[2]

\* C30: a detection whose pixel box has zero width or zero height has no
\* entry in the message, and every entry's x, y, width and height lie
\* within [0, 1].
C30_DegenerateDropped ==
    \A i \in 1..Len(meta.det_payload) :
        LET e == meta.det_payload[i] IN
        /\ ~ZeroArea(meta.detections[e.source])
        /\ \A v \in {e.box.x, e.box.y, e.box.width, e.box.height} : 0 <= v /\ v <= Scale

\* C31: every estimate_distance_m call, also one answered from last_depths,
\* returns one distance per detection of the call, and the distance at
\* index i is the one calculated from the call's frame for its detection i.
C31_DistancePerDetection ==
    depth.calls > 0 =>
        /\ Len(depth.last.returned) = Len(depth.last.dets)
        /\ \A i \in 1..Len(depth.last.dets) :
               depth.last.returned[i] = DistanceOf(DepthMaps[depth.last.frame], depth.last.dets[i])

\* the part of C31 that holds: one distance per detection of the call
C31_OnePerDetection ==
    Len(depth.last.returned) = Len(depth.last.dets)

\* a weaker reading of C31: the distance at index i is the one calculated
\* for detection i of the call from the frame of some call
C31_DistanceOfSomeFrame ==
    \A i \in 1..Len(depth.last.dets) :
        \E frame \in 1..Len(DepthMaps) :
            depth.last.returned[i] = DistanceOf(DepthMaps[frame], depth.last.dets[i])

\* C32: the frame ids of the messages one run broadcasts are strictly
\* increasing in the order of the broadcasts.
C32_FrameIdsIncrease ==
    \A i, j \in 1..Len(sampling.messages) :
        i < j => sampling.messages[i] < sampling.messages[j]

\* two broadcasts of one run, the second built while the loop had already
\* moved past the frame its pass was dispatched for
C32_Witness ==
    /\ Len(sampling.messages) >= 2
    /\ sampling.pass.pc = "broadcast"
    /\ sampling.pass.frame < sampling.messages[Len(sampling.messages)]

\* The tracks of the table whose last_seen_frame is frame_id.
SeenIn(objs, frame_id) == {k \in DOMAIN objs : objs[k].last_seen_frame = frame_id}

\* The detections of the call made in this step that were appended to a
\* track that was in the table before the call.
MatchedInCall ==
    {i \in DOMAIN tm_last'.assignments :
        tm_last'.assignments[i] \in DOMAIN tm_tracked_objects}

\* C33 as stated: in a call with n detections no track receives two of
\* them, afterwards exactly n tracks have last_seen_frame = frame_id, and the
\* table has grown by n minus the number of matches.
C33_ExactlyNSeen ==
    [][Called("match") =>
         LET a == tm_last'.assignments
             n == Len(tm_last'.detections)
         IN  /\ \A i, j \in DOMAIN a : i # j => a[i] # a[j]
             /\ Cardinality(SeenIn(tm_tracked_objects', tm_last'.frame_id)) = n
             /\ Cardinality(DOMAIN tm_tracked_objects')
                    = Cardinality(DOMAIN tm_tracked_objects)
                          + n - Cardinality(MatchedInCall)]_vars

\* C33, amended: no track receives two detections of the call; the tracks
\* with last_seen_frame = frame_id afterwards are the n tracks of the call
\* and those that had this last_seen_frame before; the table has grown by n
\* minus the number of matches.
C33_OnePerTrack ==
    [][Called("match") =>
         LET a == tm_last'.assignments
             n == Len(tm_last'.detections)
             frame_id == tm_last'.frame_id
         IN  /\ Len(a) = n
             /\ \A i, j \in DOMAIN a : i # j => a[i] # a[j]
             /\ SeenIn(tm_tracked_objects', frame_id)
                    = Range(a) \cup SeenIn(tm_tracked_objects, frame_id)
             /\ SeenIn(tm_tracked_objects, frame_id) = {} =>
                    Cardinality(SeenIn(tm_tracked_objects', frame_id)) = n
             /\ Cardinality(DOMAIN tm_tracked_objects')
                    = Cardinality(DOMAIN tm_tracked_objects)
                          + n - Cardinality(MatchedInCall)]_vars

\* A call with two detections, one appended to an existing track and one
\* given a new track, after which three tracks have the call's frame id: a
\* track stored for the same frame by an earlier call was not matched.
C33_Witness ==
    /\ tm_last.op = "match"
    /\ Len(tm_last.detections) = 2
    /\ tm_last.assignments[1] # tm_last.assignments[2]
    /\ Cardinality(tm_last.created) = 1
    /\ Cardinality(SeenIn(tm_tracked_objects, tm_last.frame_id)) = 3

\* IoU of the detection with the latest history entry of track k, as it was
\* before the call.
CandidateIou(k, det) ==
    calculate_iou(tm_tracked_objects[k].history[Len(tm_tracked_objects[k].history)].box,
                  det.box)

\* C34: a detection with eligible candidate tracks is matched to the first
\* candidate in table order whose IoU reaches early_termination_iou if there
\* is one, and otherwise to a candidate of highest IoU.
C34_BestOrEarly ==
    [][Called("match") =>
         LET a == tm_last'.assignments
             d == tm_last'.detections
         IN  \A i \in DOMAIN a :
                 LET eligible == Matchable(tm_tracked_objects, d[i],
                                           {a[j] : j \in 1..(i - 1)})
                     near == {k \in eligible :
                                 IouAtLeast(CandidateIou(k, d[i]), early_termination_iou)}
                 IN  eligible # {} =>
                         IF near # {}
                         THEN a[i] = Lowest(near)
                         ELSE /\ a[i] \in eligible
                              /\ \A k \in eligible :
                                     ~IouGreater(CandidateIou(k, d[i]),
                                                 CandidateIou(a[i], d[i]))]_vars

\* After tracks 0 and 1 were created for NearD and NearE in one call, NearE
\* was detected again and appended to track 0 (IoU 0.9, first in table
\* order) although track 1 holds the identical box.
C34_Witness ==
    /\ tm_last.op = "match"
    /\ tm_last.detections = <<[box |-> NearE, cls_id |-> 0]>>
    /\ tm_last.assignments = <<0>>
    /\ 1 \in DOMAIN tm_tracked_objects
    /\ tm_tracked_objects[1].history = <<[box |-> NearE, cls_id |-> 0, frame_id |-> 1]>>
    /\ Len(tm_tracked_objects[0].history) = 2
    /\ tm_tracked_objects[0].history[1].box = NearD

\* (target - f1) / (f2 - f1) clamped to [0, 1.5], and 0 when f1 = f2, decided
\* on the integers: the quotient is rounded only when it lies strictly
\* between the two limits.
ClampedFactor(f1, f2, target) ==
    LET num == IF f2 < f1 THEN f1 - target ELSE target - f1
        den == IF f2 < f1 THEN f1 - f2 ELSE f2 - f1
    IN  IF den = 0 \/ num <= 0 THEN 0
        ELSE IF 2 * num >= 3 * den THEN FromRatio(3, 2)
        ELSE FromRatio(num, den)

SameValues(r, e) ==
    r.box = e.box /\ r.distance = e.distance /\ r.confidence = e.confidence

\* C35 as stated: the result is the interpolation for the clamped factor;
\* for a target at or beyond f2 + (f2 - f1) / 2 it is the t = 1.5
\* extrapolation, and for a target at or before f1 it is the earlier entry.
C35_ClampedExtrapolation ==
    Len(interp.history) = 2 =>
        LET e1 == interp.history[1]
            e2 == interp.history[2]
            f == interp.target_frame_id
            r == interp.result[1]
        IN  /\ r = Interpolated(e1, e2, ClampedFactor(e1.frame_id, e2.frame_id, f), f,
                                interp.confidence_decay)
            /\ 2 * (f - e2.frame_id) >= e2.frame_id - e1.frame_id =>
                   r = Interpolated(e1, e2, FromRatio(3, 2), f, interp.confidence_decay)
            /\ f <= e1.frame_id => SameValues(r, e1)

\* C35, amended: the result is the interpolation for the clamped factor; when
\* f1 < f2 it is the t = 1.5 extrapolation for a target at or beyond
\* f2 + (f2 - f1) / 2 and the earlier entry for a target at or before f1;
\* when f1 = f2 it is the earlier entry for every target.
C35_ClampedWhenOrdered ==
    Len(interp.history) = 2 =>
        LET e1 == interp.history[1]
            e2 == interp.history[2]
            f == interp.target_frame_id
            r == interp.result[1]
        IN  /\ r = Interpolated(e1, e2, ClampedFactor(e1.frame_id, e2.frame_id, f), f,
                                interp.confidence_decay)
            /\ e1.frame_id < e2.frame_id =>
                   /\ 2 * (f - e2.frame_id) >= e2.frame_id - e1.frame_id =>
                          r = Interpolated(e1, e2, FromRatio(3, 2), f,
                                           interp.confidence_decay)
                   /\ f <= e1.frame_id => SameValues(r, e1)
            /\ e1.frame_id = e2.frame_id => SameValues(r, e1)

\* a call two frames past the later entry, where the factor is clamped: the
\* returned distance lies beyond the later entry's and is not the one for
\* the unclamped factor
C35_Witness ==
    /\ InterpolatedCall
    /\ interp.history[1].frame_id = 1
    /\ interp.history[2].frame_id = 2
    /\ interp.target_frame_id = 4
    /\ interp.history[1].distance < interp.history[2].distance
    /\ interp.result[1].distance > interp.history[2].distance
    /\ interp.result[1].distance
           # lerp(interp.history[1].distance, interp.history[2].distance, FromInt(3))

\* C36: in the result of _process_detection no track has two entries, no
\* track updated by the matching of this frame has an interpolated entry,
\* the entries of fresh detections come first and are flagged FALSE, the
\* interpolated ones follow and are flagged TRUE, and the list of flags is as
\* long as the list of entries (a detection and its distance are one entry).
C36_OneEntryPerTrack ==
    tm_last.op = "process" =>
        LET out == tm_last.output IN
        /\ \A i, j \in DOMAIN out : i # j => out[i].track_id # out[j].track_id
        /\ \A i \in DOMAIN out :
               out[i].interpolated => out[i].track_id \notin Range(tm_last.assignments)
        /\ \A i \in DOMAIN out :
               ~out[i].interpolated => out[i].track_id \in Range(tm_last.assignments)
        /\ \A i, j \in DOMAIN out :
               (out[i].interpolated /\ ~out[j].interpolated) => j < i
        /\ Len(tm_last.is_interpolated) = Len(out)
        /\ \A i \in DOMAIN out : tm_last.is_interpolated[i] = out[i].interpolated

\* A step whose result has a fresh entry for a track with two history
\* entries, which interpolation would have returned too, followed by an
\* interpolated entry for a track that was not updated.
C36_Witness ==
    /\ tm_last.op = "process"
    /\ Len(tm_last.output) = 2
    /\ ~tm_last.output[1].interpolated
    /\ tm_last.output[2].interpolated
    /\ tm_last.output[1].track_id \in DOMAIN tm_tracked_objects
    /\ Len(tm_tracked_objects[tm_last.output[1].track_id].history) = 2

\* C37: the confidence of every entry get_interpolated returns lies within
\* [0, 1], for every confidence_decay >= 0 and every target frame, the
\* confidences of the history being within [0, 1].
C37_ConfidenceInRange ==
    \A i \in DOMAIN interp.result :
        0 <= interp.result[i].confidence /\ interp.result[i].confidence <= Scale

\* the part of C37 that holds: the same for confidence_decay <= 2/3
C37_InRangeForSmallDecay ==
    3 * interp.confidence_decay <= 2 * Scale =>
        \A i \in DOMAIN interp.result :
            0 <= interp.result[i].confidence /\ interp.result[i].confidence <= Scale

\* C38: whenever a subscriber is attached and the streamer URL is set, a
\* frame-processing task is eventually running, unless the subscribers have
\* all left.
C38_EventuallyRunning ==
    (active_connections # {} /\ _streamer_url)
        ~> ((\E t \in RunIds : Running(t)) \/ active_connections = {})

\* The send to w made by broadcast p has raised: w was in the snapshot, its
\* send is over and delivered nothing.
SendFailed(p, w) == w \in p.S \ p.todo /\ p.cnt[w] = 0

\* The step ends broadcast p: its last send returns or raises.
EndsBroadcast(p) ==
    /\ p.pc = "send"
    /\ \E q \in passes' : PassId(q) = PassId(p) /\ q.pc = "done"

\* C39: a broadcast changes active_connections only by removing the
\* subscribers whose own send failed.  A subscriber enters the set only in
\* its connect(); one leaves it only in its disconnect() or at the end of a
\* broadcast whose send to it failed; the step that ends a broadcast keeps
\* every subscriber attached since the snapshot and brings back none that
\* was detached since.
C39_OnlyFailedSendsRemoved ==
    /\ \A w \in active_connections' \ active_connections :
          ws_pc[w].pc = "fresh" /\ ws_pc'[w].pc # "fresh"
    /\ \A w \in active_connections \ active_connections' :
          \/ ws_pc[w].pc = "attached" /\ ws_pc'[w].pc # "attached"
          \/ \E p \in passes : EndsBroadcast(p) /\
                \E q \in passes' : PassId(q) = PassId(p) /\ SendFailed(q, w)
    /\ \A p \in passes : EndsBroadcast(p) =>
          /\ \A w \in active_connections \ p.S : w \in active_connections'
          /\ \A w \in p.S \ active_connections : w \notin active_connections'
          /\ \A w \in active_connections :
                w \in active_connections' \/
                \E q \in passes' : PassId(q) = PassId(p) /\ SendFailed(q, w)

C39_BroadcastKeepsLiveSet == [][C39_OnlyFailedSendsRemoved]_vars

\* C39 witness: a finished broadcast whose snapshot held subscriber 1 alone
\* and whose send to it raised; subscriber 1 is out of the set and
\* subscriber 2, attached by connect() behind the running pipeline, is in.
C39_Witness ==
    \E p \in passes :
        /\ p.outcome = "sent"
        /\ p.S = {1} /\ p.dead = {1}
        /\ active_connections = {2}
        /\ ws_pc[2].pc = "attached"
        /\ _processing_task = p.run /\ Running(p.run)
====
